---- MODULE Spec2Model ----
(***************************************************************************)
(* Crawl orchestration core of google_scholar_scraper:                     *)
(*   ProxyManager (proxy_manager.py), Fetcher.fetch_page /                 *)
(*   Fetcher.download_pdf / Fetcher.scrape (fetcher.py).                   *)
(*                                                                         *)
(* The program runs on one asyncio event loop.  An action of this module   *)
(* is the code one coroutine runs between two suspension points (an await  *)
(* that really yields: asyncio.sleep, a network request, asyncio.gather).  *)
(* An await of a coroutine that returns without suspending is part of the  *)
(* same action.                                                            *)
(*                                                                         *)
(* Time is counted in units of 300 s (the default refresh_interval), and   *)
(* relative to the present: the code only ever compares "time.time() - ts" *)
(* with refresh_interval or blacklist_duration, so a stored timestamp is   *)
(* kept as Now minus its age, and ages stop growing at AgeCap, beyond      *)
(* which no comparison of the code tells them apart.                       *)
(***************************************************************************)
EXTENDS Integers, Sequences, FiniteSets, TLC

VARIABLES
    pm,      \* the ProxyManager object, plus the content of its blacklist file
    ft,      \* the Fetcher object's statistics
    fetch,   \* one record per running fetch_page call (its local variables)
    budget,  \* per caller, the fetch_page calls it may still start
    dl,      \* the running download_pdf call (its local variables, its file)
    web,     \* what Google Scholar serves: search pages and cited-by pages
    store,   \* the results table of the DataHandler's database
    graph,   \* GraphBuilder.graph
    cr,      \* the running scrape call (its local variables)
    tks,     \* the fetch_cited_by_page coroutines the scrape call is gathering
    api,     \* the call a direct client of the ProxyManager, or of the DataHandler,
             \* is making or made
    mn       \* the running main(): its arguments, its position, what it did

poolVars == <<pm, ft, fetch, budget>>

crawlVars == <<web, store, graph, cr, tks>>

(***************************************************************************)
(* Bounds and program constants                                            *)
(***************************************************************************)
Proxies == {"p1", "p2"}          \* addresses the provider may return
Fetchers == {"A", "B"}                 \* concurrently running fetch_page calls
None == "None"                         \* Python's None

NumProxies == 1          \* ProxyManager(num_proxies=...)
MaxRetries == 3          \* Fetcher(max_retries=3)
RefreshInterval == 1     \* refresh_interval=300 s  = 1 unit
BlacklistDuration == 2   \* blacklist_duration=600 s = 2 units
MaxCalls == 1            \* fetch_page calls one caller makes, one after the other

\* The age from which on a timestamp is older than both thresholds.
AgeCap == IF RefreshInterval + 1 > BlacklistDuration
          THEN RefreshInterval + 1 ELSE BlacklistDuration

\* time.time(): the present.  last_refresh = 0 of __init__ is AgeCap old, so
\* that "current_time - self.last_refresh > self.refresh_interval" holds at
\* first, as it does on a real clock.
Now == AgeCap

\* The provider's answers: no address, or a list of distinct addresses (which
\* of them are alive is decided probe by probe, when the gather returns).
RawLists == {<<>>, <<"p1", "p2">>}

ErrorTypes == {"TIMEOUT", "CONNECTION", "OTHER", "CAPTCHA"}

(***************************************************************************)
(* Sequence helpers                                                        *)
(***************************************************************************)
Range(s) == {s[i] : i \in 1..Len(s)}

\* list[:n]
Take(s, n) == IF Len(s) <= n THEN s ELSE SubSeq(s, 1, n)

\* list.remove(x): drops the first occurrence
RECURSIVE RemoveFirst(_, _)
RemoveFirst(s, x) ==
    IF s = <<>> THEN <<>>
    ELSE IF Head(s) = x THEN Tail(s)
    ELSE <<Head(s)>> \o RemoveFirst(Tail(s), x)

(***************************************************************************)
(* ProxyManager                                                            *)
(***************************************************************************)
NewStats ==
    [successes |-> 0, failures |-> 0, timeouts |-> 0, captchas |-> 0,
     connection_errors |-> 0, request_count |-> 0]

\* ProxyManager.__init__ with no blacklist file on disk
NewProxyManager ==
    [proxy_list |-> <<>>,
     blacklist |-> [p \in {} |-> 0],
     blacklist_file |-> [p \in {} |-> 0],
     last_refresh |-> 0,
     current_proxy |-> None,
     proxy_performance |-> [p \in {} |-> NewStats],
     force_direct_connection |-> FALSE,
     debug_mode |-> FALSE]

\* "proxy in self.blacklist and time.time() - float(self.blacklist[proxy]) < self.blacklist_duration"
IsBlacklisted(s, p, t) ==
    /\ p \in DOMAIN s.blacklist
    /\ t - s.blacklist[p] < BlacklistDuration

_initialize_proxy_stats(s, p) ==
    IF p \in DOMAIN s.proxy_performance THEN s
    ELSE [s EXCEPT !.proxy_performance =
            [q \in DOMAIN s.proxy_performance \cup {p} |->
                IF q = p THEN NewStats ELSE s.proxy_performance[q]]]

RECURSIVE InitStatsAll(_, _)
InitStatsAll(s, ps) ==
    IF ps = <<>> THEN s
    ELSE InitStatsAll(_initialize_proxy_stats(s, Head(ps)), Tail(ps))

_update_proxy_usage_stats(s, p) ==
    IF p = None THEN s
    ELSE [_initialize_proxy_stats(s, p) EXCEPT
            !.proxy_performance[p].request_count = @ + 1]

_save_blacklist(s) == [s EXCEPT !.blacklist_file = s.blacklist]

\* _load_blacklist without its filter on the entries' age
_load_blacklist_KeepsAll(file, t) == file

\* _load_blacklist: the entries of the file that are younger than
\* blacklist_duration; no file (FileNotFoundError) gives {}
_load_blacklist(file, t) ==
    [p \in {q \in DOMAIN file : t - file[q] < BlacklistDuration} |-> file[p]]

\* ProxyManager.__init__ next to the blacklist file an earlier ProxyManager
\* left on disk
ProxyManagerInit(file, t) ==
    [NewProxyManager EXCEPT !.blacklist = _load_blacklist(file, t),
                            !.blacklist_file = file]

\* remove_proxy without its "self.proxy_list.remove(proxy)"
remove_proxy_KeepsActive(s, p, t) ==
    LET s2 == [s EXCEPT !.blacklist =
                 [q \in DOMAIN s.blacklist \cup {p} |->
                     IF q = p THEN t ELSE s.blacklist[q]]]
        s3 == _save_blacklist(s2)
    IN  IF s3.current_proxy = p THEN [s3 EXCEPT !.current_proxy = None] ELSE s3

remove_proxy(s, p, t) ==
    LET s1 == IF p \in Range(s.proxy_list)
              THEN [s EXCEPT !.proxy_list = RemoveFirst(s.proxy_list, p)]
              ELSE s
        s2 == [s1 EXCEPT !.blacklist =
                 [q \in DOMAIN s1.blacklist \cup {p} |->
                     IF q = p THEN t ELSE s1.blacklist[q]]]
        s3 == _save_blacklist(s2)
    IN  IF s3.current_proxy = p THEN [s3 EXCEPT !.current_proxy = None] ELSE s3

\* mark_proxy_failure without its "failures += 1" (line 310)
mark_proxy_failure_KindOnly(s, p, error_type) ==
    IF p # None /\ p \in DOMAIN s.proxy_performance
    THEN CASE error_type = "TIMEOUT" ->
                [s EXCEPT !.proxy_performance[p].timeouts = @ + 1]
           [] error_type = "CAPTCHA" ->
                [s EXCEPT !.proxy_performance[p].captchas = @ + 1]
           [] error_type = "CONNECTION" ->
                [s EXCEPT !.proxy_performance[p].connection_errors = @ + 1]
           [] OTHER -> s
    ELSE s

\* mark_proxy_failure followed by what remove_proxy does
mark_proxy_failure_Evicts(s, p, error_type) ==
    IF p # None /\ p \in DOMAIN s.proxy_performance
    THEN remove_proxy([s EXCEPT !.proxy_performance[p].failures = @ + 1], p, Now)
    ELSE s

\* mark_proxy_failure without the counters by error type (lines 311-316)
mark_proxy_failure_NoKind(s, p, error_type) ==
    IF p # None /\ p \in DOMAIN s.proxy_performance
    THEN [s EXCEPT !.proxy_performance[p].failures = @ + 1]
    ELSE s

mark_proxy_failure(s, p, error_type) ==
    IF p # None /\ p \in DOMAIN s.proxy_performance
    THEN LET s1 == [s EXCEPT !.proxy_performance[p].failures = @ + 1]
         IN  CASE error_type = "TIMEOUT" ->
                    [s1 EXCEPT !.proxy_performance[p].timeouts = @ + 1]
               [] error_type = "CAPTCHA" ->
                    [s1 EXCEPT !.proxy_performance[p].captchas = @ + 1]
               [] error_type = "CONNECTION" ->
                    [s1 EXCEPT !.proxy_performance[p].connection_errors = @ + 1]
               [] OTHER -> s1
    ELSE s

\* mark_proxy_success that also forgets the address's failures
mark_proxy_success_ClearsFailures(s, p) ==
    IF p # None /\ p \in DOMAIN s.proxy_performance
    THEN [s EXCEPT !.proxy_performance[p].successes = @ + 1,
                   !.proxy_performance[p].failures = 0]
    ELSE s

mark_proxy_success(s, p) ==
    IF p # None /\ p \in DOMAIN s.proxy_performance
    THEN [s EXCEPT !.proxy_performance[p].successes = @ + 1]
    ELSE s

\* _test_proxy up to its first await: a blacklisted candidate is dropped at
\* once, the others get their stats and their probe goes on the wire.
RECURSIVE ProbeList(_, _, _)
ProbeList(s, raw, t) ==
    IF raw = <<>> THEN <<>>
    ELSE IF IsBlacklisted(s, Head(raw), t) THEN ProbeList(s, Tail(raw), t)
    ELSE <<Head(raw)>> \o ProbeList(s, Tail(raw), t)

\* get_working_proxies_start without the cache test of lines 174-177
get_working_proxies_start_NoCache(s, raw, t) ==
    IF s.force_direct_connection \/ s.debug_mode
    THEN [s |-> [s EXCEPT !.proxy_list = <<>>, !.last_refresh = t],
          ctl |-> "return", probing |-> <<>>, asked |-> FALSE]
    ELSE IF raw = <<>>
    THEN [s |-> s, ctl |-> "raise", probing |-> <<>>, asked |-> TRUE]
    ELSE [s |-> InitStatsAll(s, ProbeList(s, raw, t)),
          ctl |-> "await", probing |-> ProbeList(s, raw, t), asked |-> TRUE]

\* get_working_proxies up to "await asyncio.gather(*tasks)".
\*   ctl = "return": it returned (forced/debug mode, or the cached pool)
\*   ctl = "raise" : NoProxiesAvailable("No raw proxies found.")
\*   ctl = "await" : the probes of .probing are in flight
\* asked tells whether self.fp.get_proxy_list was called (line 180).
get_working_proxies_start(s, raw, t) ==
    IF s.force_direct_connection \/ s.debug_mode
    THEN [s |-> [s EXCEPT !.proxy_list = <<>>, !.last_refresh = t],
          ctl |-> "return", probing |-> <<>>, asked |-> FALSE]
    ELSE IF t - s.last_refresh < RefreshInterval /\ s.proxy_list # <<>>
    THEN [s |-> s, ctl |-> "return", probing |-> <<>>, asked |-> FALSE]
    ELSE IF raw = <<>>
    THEN [s |-> s, ctl |-> "raise", probing |-> <<>>, asked |-> TRUE]
    ELSE [s |-> InitStatsAll(s, ProbeList(s, raw, t)),
          ctl |-> "await", probing |-> ProbeList(s, raw, t), asked |-> TRUE]

\* get_working_proxies_finish without the "[: self.num_proxies]" of line 190
get_working_proxies_finish_NoCap(s, results, t) ==
    LET s1 == [s EXCEPT !.proxy_list = results, !.last_refresh = t]
        s2 == InitStatsAll(s1, s1.proxy_list)
    IN  [s |-> s2, ctl |-> IF s2.proxy_list = <<>> THEN "raise" ELSE "return"]

\* get_working_proxies_finish without the "raise NoProxiesAvailable" of line 198
get_working_proxies_finish_NoRaise(s, results, t) ==
    LET s1 == [s EXCEPT !.proxy_list = Take(results, NumProxies),
                        !.last_refresh = t]
        s2 == InitStatsAll(s1, s1.proxy_list)
    IN  [s |-> s2, ctl |-> "return"]

\* get_working_proxies from the gather's return: results are the addresses
\* whose probe succeeded, in the provider's order.
get_working_proxies_finish(s, results, t) ==
    LET s1 == [s EXCEPT !.proxy_list = Take(results, NumProxies),
                        !.last_refresh = t]
        s2 == InitStatsAll(s1, s1.proxy_list)
    IN  [s |-> s2, ctl |-> IF s2.proxy_list = <<>> THEN "raise" ELSE "return"]

\* What get_proxy hands back to its caller.
\*   ctl = "return" : it returned .val (an address or None)
\*   ctl = "await"  : it is suspended in refresh_proxies() at .loc
\*   ctl = "invalid": the random.choice drawn is not one this state allows
\* calls counts the refresh_proxies() calls it made since it was entered or
\* resumed, the one it is suspended in included.
GpReturn(s, v) ==
    [s |-> s, ctl |-> "return", val |-> v, loc |-> "", probing |-> <<>>,
     calls |-> 0]

GpAwait(r, loc) ==
    [s |-> r.s, ctl |-> "await", val |-> None, loc |-> loc, probing |-> r.probing,
     calls |-> 1]

\* one more refresh_proxies() call was made before r came about
Called(r) == [r EXCEPT !.calls = @ + 1]

\* GpNone without the "except NoProxiesAvailable" of line 288: the exception
\* leaves get_proxy
GpNone_Raises(s) ==
    [GpReturn([s EXCEPT !.current_proxy = None], None) EXCEPT !.ctl = "raise"]

\* "self.current_proxy = None" then None: the raise sites of get_proxy, all
\* caught by its "except NoProxiesAvailable"
GpNone(s) == GpReturn([s EXCEPT !.current_proxy = None], None)

AvailableProxies(s, t) ==
    SelectSeq(s.proxy_list, LAMBDA p : ~IsBlacklisted(s, p, t))

\* get_proxy from "if self.proxy_list:" (line 259).  may_refresh is FALSE once
\* the refresh of line 269 has been awaited.
RECURSIVE GpSelect(_, _, _, _, _)
GpSelect(s, raw, pick, t, may_refresh) ==
    IF s.proxy_list = <<>> THEN GpNone(s)
    ELSE IF AvailableProxies(s, t) = <<>>
    THEN IF may_refresh
         THEN LET r == get_working_proxies_start(s, raw, t)
              IN  CASE r.ctl = "raise"  -> Called(GpNone(r.s))
                    [] r.ctl = "await"  -> GpAwait(r, "gp_r3")
                    [] OTHER            -> Called(GpSelect(r.s, raw, pick, t, FALSE))
         ELSE GpNone(s)
    ELSE IF pick \in Range(AvailableProxies(s, t))
    THEN GpReturn(_update_proxy_usage_stats([s EXCEPT !.current_proxy = pick], pick),
                  pick)
    ELSE [GpReturn(s, None) EXCEPT !.ctl = "invalid"]

\* get_proxy from the final check of the empty-list branch (line 254)
GpAfterR2(s, raw, pick, t) ==
    IF s.proxy_list = <<>> THEN GpNone(s)
    ELSE GpSelect(s, raw, pick, t, TRUE)

\* get_proxy from "if not self.proxy_list:" of line 250
GpAfterR1(s, raw, pick, t) ==
    IF s.proxy_list = <<>>
    THEN LET r == get_working_proxies_start(s, raw, t)
         IN  CASE r.ctl = "raise" -> Called(GpNone(r.s))
               [] r.ctl = "await" -> GpAwait(r, "gp_r2")
               [] OTHER           -> Called(GpAfterR2(r.s, raw, pick, t))
    ELSE GpAfterR2(s, raw, pick, t)

\* get_proxy from "try:" (line 243)
GpTry(s, raw, pick, t) ==
    IF s.proxy_list = <<>>
    THEN IF t - s.last_refresh > RefreshInterval
         THEN LET r == get_working_proxies_start(s, raw, t)
              IN  CASE r.ctl = "raise" -> Called(GpNone(r.s))
                    [] r.ctl = "await" -> GpAwait(r, "gp_r1")
                    [] OTHER           -> Called(GpAfterR1(r.s, raw, pick, t))
         ELSE GpAfterR1(s, raw, pick, t)
    ELSE GpSelect(s, raw, pick, t, TRUE)

\* get_proxy without the forced-direct test of lines 220-222
get_proxy_NoDirect(s, raw, pick, t) ==
    IF s.debug_mode THEN GpReturn(s, None)
    ELSE IF s.current_proxy # None
    THEN IF IsBlacklisted(s, s.current_proxy, t)
         THEN GpTry([s EXCEPT !.current_proxy = None], raw, pick, t)
         ELSE GpReturn(_update_proxy_usage_stats(s, s.current_proxy), s.current_proxy)
    ELSE GpTry(s, raw, pick, t)

get_proxy(s, raw, pick, t) ==
    IF s.force_direct_connection \/ s.debug_mode THEN GpReturn(s, None)
    ELSE IF s.current_proxy # None
    THEN IF IsBlacklisted(s, s.current_proxy, t)
         THEN GpTry([s EXCEPT !.current_proxy = None], raw, pick, t)
         ELSE GpReturn(_update_proxy_usage_stats(s, s.current_proxy), s.current_proxy)
    ELSE GpTry(s, raw, pick, t)

\* get_proxy_resume with the NoProxiesAvailable of the awaited refresh not
\* caught: it leaves get_proxy
get_proxy_resume_Propagates(fin, loc, raw, pick, t) ==
    IF fin.ctl = "raise" THEN [GpReturn(fin.s, None) EXCEPT !.ctl = "raise"]
    ELSE CASE loc = "gp_r1" -> GpAfterR1(fin.s, raw, pick, t)
           [] loc = "gp_r2" -> GpAfterR2(fin.s, raw, pick, t)
           [] OTHER         -> GpSelect(fin.s, raw, pick, t, FALSE)

\* get_proxy from the return of the refresh it awaited at loc; fin is what
\* get_working_proxies_finish gave.
get_proxy_resume(fin, loc, raw, pick, t) ==
    IF fin.ctl = "raise" THEN GpNone(fin.s)
    ELSE CASE loc = "gp_r1" -> GpAfterR1(fin.s, raw, pick, t)
           [] loc = "gp_r2" -> GpAfterR2(fin.s, raw, pick, t)
           [] OTHER         -> GpSelect(fin.s, raw, pick, t, FALSE)

(***************************************************************************)
(* Fetcher.fetch_page                                                      *)
(***************************************************************************)
NewFetcher ==
    [successful_requests |-> 0, failed_requests |-> 0,
     proxies_used |-> {}, proxies_removed |-> 0, pdfs_downloaded |-> 0]

\* One fetch_page call: its locals (proxy, attempt), where it is suspended
\* (pc), the probes of the refresh it awaits (probing), what it returned
\* (result), what its requests met on the wire (met) and how often it called
\* each method of the ProxyManager, and with which addresses (log).
NewLog ==
    [get_proxy |-> 0, request |-> 0, mark_proxy_success |-> 0,
     mark_proxy_failure |-> [k \in ErrorTypes |-> 0],
     remove_proxy |-> 0, refresh_proxies |-> 0, addresses |-> {}]

NewCall ==
    [pc |-> "idle", proxy |-> None, attempt |-> 0, probing |-> <<>>,
     result |-> None, met |-> [ok |-> 0, captcha |-> 0, failed |-> 0],
     log |-> NewLog]

Outcomes == {"ok", "captcha", "timeout", "connection", "http_error"}

LogCall(c, op) == [c EXCEPT !.log[op] = @ + 1]

LogOn(c, op, p) == [c EXCEPT !.log[op] = @ + 1, !.log.addresses = @ \cup {p}]

LogFailure(c, p, k) ==
    [c EXCEPT !.log.mark_proxy_failure[k] = @ + 1, !.log.addresses = @ \cup {p}]

Met(c, outcome) ==
    CASE outcome = "ok"      -> [c EXCEPT !.met.ok = @ + 1]
      [] outcome = "captcha" -> [c EXCEPT !.met.captcha = @ + 1]
      [] OTHER               -> [c EXCEPT !.met.failed = @ + 1]

Returned(c, v) == [c EXCEPT !.pc = "done", !.result = v, !.probing = <<>>]

\* fetch_page from the return of get_proxy (lines 73-80) to the first sleep
FetchBound(w, r) ==
    IF r.ctl = "await"
    THEN [s |-> r.s, F |-> w.F,
          c |-> [w.c EXCEPT !.pc = r.loc, !.probing = r.probing]]
    ELSE [s |-> r.s,
          F |-> IF r.val # None
                THEN [w.F EXCEPT !.proxies_used = @ \cup {r.val}] ELSE w.F,
          c |-> [w.c EXCEPT !.pc = "sleep", !.proxy = r.val, !.attempt = 0,
                            !.probing = <<>>]]

\* fetch_page from its first line to its first suspension
fetch_page_begin(w, raw, pick, t) ==
    FetchBound([w EXCEPT !.c = LogCall(NewCall, "get_proxy")],
               get_proxy(w.s, raw, pick, t))

\* lines 209-213
ErrorTypeOf(outcome) ==
    CASE outcome = "timeout"    -> "TIMEOUT"
      [] outcome = "connection" -> "CONNECTION"
      [] OTHER                  -> "OTHER"

\* OnCaptcha as it would be without the fail-fast "return None": the CAPTCHA
\* counts as one more failed attempt of the retry loop
OnCaptcha_Retry(w, raw, t) ==
    LET p  == w.c.proxy
        s1 == IF p # None THEN mark_proxy_failure(w.s, p, "CAPTCHA") ELSE w.s
        c1 == IF p # None THEN LogFailure(w.c, p, "CAPTCHA") ELSE w.c
        F1 == [w.F EXCEPT !.failed_requests = @ + 1]
    IN  IF w.c.attempt = MaxRetries - 1
        THEN [s |-> IF p # None THEN remove_proxy(s1, p, t) ELSE s1, F |-> F1,
              c |-> Returned(IF p # None THEN LogOn(c1, "remove_proxy", p) ELSE c1, None)]
        ELSE [s |-> s1, F |-> F1,
              c |-> [c1 EXCEPT !.pc = "sleep", !.attempt = @ + 1]]

\* the "except (ClientError, TimeoutError, CaptchaException)" branch for a
\* CaptchaException (lines 192-206), up to the refresh's first suspension
OnCaptcha(w, raw, t) ==
    LET p  == w.c.proxy
        s1 == IF p # None
              THEN remove_proxy(mark_proxy_failure(w.s, p, "CAPTCHA"), p, t)
              ELSE w.s
        c1 == IF p # None
              THEN LogOn(LogFailure(w.c, p, "CAPTCHA"), "remove_proxy", p)
              ELSE w.c
        c2 == LogCall(c1, "refresh_proxies")
        F1 == [w.F EXCEPT !.failed_requests = @ + 1, !.proxies_removed = @ + 1]
        r  == get_working_proxies_start(s1, raw, t)
    IN  IF r.ctl = "await"
        THEN [s |-> r.s, F |-> F1,
              c |-> [c2 EXCEPT !.pc = "captcha_r", !.probing = r.probing]]
        ELSE [s |-> r.s, F |-> F1, c |-> Returned(c2, None)]

\* OnTransportError as a non-sticky fetch_page would be: the proxy is evicted
\* on every failed attempt, not only on the last one
OnTransportError_EvictEachAttempt(w, outcome, t) ==
    LET p  == w.c.proxy
        k  == ErrorTypeOf(outcome)
        s1 == IF p # None THEN remove_proxy(mark_proxy_failure(w.s, p, k), p, t) ELSE w.s
        c1 == IF p # None THEN LogOn(LogFailure(w.c, p, k), "remove_proxy", p) ELSE w.c
        F1 == [w.F EXCEPT !.failed_requests = @ + 1, !.proxies_removed = @ + 1]
    IN  IF w.c.attempt = MaxRetries - 1
        THEN [s |-> s1, F |-> F1, c |-> Returned(c1, None)]
        ELSE [s |-> s1, F |-> F1,
              c |-> [c1 EXCEPT !.pc = "sleep", !.attempt = @ + 1]]

\* OnTransportError with the last-attempt test off by one: "attempt ==
\* retry_count" instead of "attempt == retry_count - 1"
OnTransportError_OneMore(w, outcome, t) ==
    LET p  == w.c.proxy
        k  == ErrorTypeOf(outcome)
        s1 == IF p # None THEN mark_proxy_failure(w.s, p, k) ELSE w.s
        c1 == IF p # None THEN LogFailure(w.c, p, k) ELSE w.c
        F1 == [w.F EXCEPT !.failed_requests = @ + 1]
    IN  IF w.c.attempt = MaxRetries
        THEN IF p # None
             THEN [s |-> remove_proxy(s1, p, t),
                   F |-> [F1 EXCEPT !.proxies_removed = @ + 1],
                   c |-> Returned(LogOn(c1, "remove_proxy", p), None)]
             ELSE [s |-> s1, F |-> F1, c |-> Returned(c1, None)]
        ELSE [s |-> s1, F |-> F1,
              c |-> [c1 EXCEPT !.pc = "sleep", !.attempt = @ + 1]]

\* the same branch for the transport failures (lines 208-226)
OnTransportError(w, outcome, t) ==
    LET p  == w.c.proxy
        k  == ErrorTypeOf(outcome)
        s1 == IF p # None THEN mark_proxy_failure(w.s, p, k) ELSE w.s
        c1 == IF p # None THEN LogFailure(w.c, p, k) ELSE w.c
        F1 == [w.F EXCEPT !.failed_requests = @ + 1]
    IN  IF w.c.attempt = MaxRetries - 1
        THEN IF p # None
             THEN [s |-> remove_proxy(s1, p, t),
                   F |-> [F1 EXCEPT !.proxies_removed = @ + 1],
                   c |-> Returned(LogOn(c1, "remove_proxy", p), None)]
             ELSE [s |-> s1, F |-> F1, c |-> Returned(c1, None)]
        ELSE [s |-> s1, F |-> F1,
              c |-> [c1 EXCEPT !.pc = "sleep", !.attempt = @ + 1]]

\* lines 157-163
OnSuccess(w) ==
    LET p == w.c.proxy
    IN  [s |-> IF p # None THEN mark_proxy_success(w.s, p) ELSE w.s,
         F |-> [w.F EXCEPT !.successful_requests = @ + 1],
         c |-> Returned(IF p # None
                        THEN LogOn(w.c, "mark_proxy_success", p)
                        ELSE w.c,
                        "content")]

\* fetch_page from the answer to its request to its next suspension
fetch_page_response(w, outcome, raw, t) ==
    LET w1 == [w EXCEPT !.c = Met(@, outcome)]
    IN  CASE outcome = "ok"      -> OnSuccess(w1)
          [] outcome = "captcha" -> OnCaptcha(w1, raw, t)
          [] OTHER               -> OnTransportError(w1, outcome, t)

World(f) == [s |-> pm, F |-> ft, c |-> fetch[f]]

Commit(f, w) ==
    /\ pm' = w.s
    /\ ft' = w.F
    /\ fetch' = [fetch EXCEPT ![f] = w.c]

\* ---- actions -----------------------------------------------------------

\* a caller starts fetch_page(url)
FetchStart(f) ==
    /\ fetch[f].pc \in {"idle", "done"}
    /\ budget[f] > 0
    /\ budget' = [budget EXCEPT ![f] = @ - 1]
    /\ UNCHANGED <<dl, api, crawlVars, mn>>
    /\ \E raw \in RawLists, pick \in Proxies :
         LET r == get_proxy(pm, raw, pick, Now)
         IN  /\ r.ctl # "invalid"
             /\ Commit(f, fetch_page_begin(World(f), raw, pick, Now))

\* the gather of a refresh awaited inside get_proxy returns: the probes of ok
\* succeeded
GetProxyRefreshed(f) ==
    /\ fetch[f].pc \in {"gp_r1", "gp_r2", "gp_r3"}
    /\ \E ok \in SUBSET Range(fetch[f].probing), raw \in RawLists, pick \in Proxies :
         LET fin == get_working_proxies_finish(
                        pm, SelectSeq(fetch[f].probing, LAMBDA p : p \in ok), Now)
             r   == get_proxy_resume(fin, fetch[f].pc, raw, pick, Now)
         IN  /\ r.ctl # "invalid"
             /\ Commit(f, FetchBound(World(f), r))
    /\ UNCHANGED <<budget, dl, api, crawlVars, mn>>

\* the pacing sleeps are over and the request goes out through the bound proxy
SendRequest(f) ==
    /\ fetch[f].pc = "sleep"
    /\ fetch' = [fetch EXCEPT ![f] =
                    [LogOn(@, "request", @.proxy) EXCEPT !.pc = "request"]]
    /\ UNCHANGED <<pm, ft, budget, dl, api, crawlVars, mn>>

\* the request is answered, or fails, in one of the ways of outs
ResponseOf(f, outs) ==
    /\ fetch[f].pc = "request"
    /\ \E outcome \in outs, raw \in RawLists :
         Commit(f, fetch_page_response(World(f), outcome, raw, Now))
    /\ UNCHANGED <<budget, dl, api, crawlVars, mn>>

Response(f) == ResponseOf(f, Outcomes)

\* the concurrent scenario: the failures on the wire are CAPTCHA pages and
\* timeouts
ConcResponse(f) == ResponseOf(f, {"ok", "captcha", "timeout"})

\* the gather of the refresh awaited in the CAPTCHA branch returns; a
\* NoProxiesAvailable is caught at lines 199-201; then "return None"
CaptchaRefreshed(f) ==
    /\ fetch[f].pc = "captcha_r"
    /\ \E ok \in SUBSET Range(fetch[f].probing) :
         LET fin == get_working_proxies_finish(
                        pm, SelectSeq(fetch[f].probing, LAMBDA p : p \in ok), Now)
         IN  Commit(f, [s |-> fin.s, F |-> ft, c |-> Returned(fetch[f], None)])
    /\ UNCHANGED <<budget, dl, api, crawlVars, mn>>

\* one unit of time passes: every stored timestamp is one unit older
Older(ts) == IF Now - (ts - 1) > AgeCap THEN Now - AgeCap ELSE ts - 1

Tick ==
    /\ pm' = [pm EXCEPT
                !.last_refresh = Older(@),
                !.blacklist = [p \in DOMAIN @ |-> Older(@[p])],
                !.blacklist_file = [p \in DOMAIN @ |-> Older(@[p])]]
    /\ UNCHANGED <<ft, fetch, budget, dl, api, crawlVars, mn>>

(***************************************************************************)
(* Fetcher.download_pdf                                                    *)
(***************************************************************************)
Retries == 3             \* "retries = 3"

\* One download_pdf call: the locals and the log of a fetch_page call, plus
\*   retrying: the get_proxy it awaits is the one of line 308, not of line 251
\*   opened  : how often it ran open(filename, "wb")
\*   file    : a file exists at filename
NewDownload ==
    [pc |-> "idle", proxy |-> None, attempt |-> 0, probing |-> <<>>,
     result |-> None, met |-> [ok |-> 0, captcha |-> 0, failed |-> 0],
     log |-> NewLog, retrying |-> FALSE, opened |-> 0, file |-> FALSE]

\* what a request of download_pdf can meet before the body is read
DownloadOutcomes == {"pdf", "not_pdf", "timeout", "connection", "http_error"}

\* what the "async for chunk" loop can meet
StreamOutcomes == {"ok", "timeout", "payload_error"}

\* lines 280-284
DownloadErrorTypeOf(outcome) ==
    CASE outcome = "timeout"    -> "TIMEOUT"
      [] outcome = "connection" -> "CONNECTION"
      [] OTHER                  -> "OTHER"

\* "async with self.client.get(url, **request_args)": the request goes out
DownloadRequest(c) == [LogOn(c, "request", c.proxy) EXCEPT !.pc = "request"]

\* download_pdf from the return of the get_proxy of line 251 to the request
DownloadBound(w, r) ==
    IF r.ctl = "invalid" THEN [w EXCEPT !.c.pc = "invalid"]
    ELSE IF r.ctl = "await"
    THEN [w EXCEPT !.s = r.s,
                   !.c = [@ EXCEPT !.pc = r.loc, !.probing = r.probing,
                                   !.retrying = FALSE]]
    ELSE [w EXCEPT !.s = r.s,
                   !.c = DownloadRequest([@ EXCEPT !.proxy = r.val, !.attempt = 0,
                                                   !.probing = <<>>])]

\* download_pdf from its first line to its first suspension
download_pdf_begin(w, raw, pick, t) ==
    DownloadBound([w EXCEPT !.c = LogCall(NewDownload, "get_proxy")],
                  get_proxy(w.s, raw, pick, t))

\* lines 309-328, from the return of the get_proxy of line 308: the next
\* attempt goes through whatever get_proxy gave, which may be None
DownloadRebound(w, r) ==
    IF r.ctl = "invalid" THEN [w EXCEPT !.c.pc = "invalid"]
    ELSE IF r.ctl = "await"
    THEN [w EXCEPT !.s = r.s,
                   !.c = [@ EXCEPT !.pc = r.loc, !.probing = r.probing,
                                   !.retrying = TRUE]]
    ELSE [w EXCEPT !.s = r.s,
                   !.c = [@ EXCEPT !.pc = "sleep", !.proxy = r.val,
                                   !.attempt = @ + 1, !.probing = <<>>]]

\* the "except NoProxiesAvailable" of lines 323-326, then the sleep
DownloadDirect(w) ==
    [w EXCEPT !.c = [@ EXCEPT !.pc = "sleep", !.proxy = None,
                              !.attempt = @ + 1, !.probing = <<>>]]

\* line 308 on, once refresh_proxies() has returned
DownloadAfterRefresh(w, raw, pick, t) ==
    DownloadRebound([w EXCEPT !.c = LogCall(@, "get_proxy")],
                    get_proxy(w.s, raw, pick, t))

\* the "except (aiohttp.ClientError, asyncio.TimeoutError)" branch (lines
\* 276-328), up to its next suspension
OnDownloadError(w, outcome, raw, pick, t) ==
    LET p  == w.c.proxy
        k  == DownloadErrorTypeOf(outcome)
        s1 == IF p # None THEN mark_proxy_failure(w.s, p, k) ELSE w.s
        c1 == [(IF p # None THEN LogFailure(w.c, p, k) ELSE w.c)
                  EXCEPT !.met.failed = @ + 1]
    IN  IF w.c.attempt = Retries - 1
        THEN IF p # None
             THEN [s |-> remove_proxy(s1, p, t), F |-> w.F,
                   c |-> Returned(LogOn(c1, "remove_proxy", p), FALSE)]
             ELSE [s |-> s1, F |-> w.F, c |-> Returned(c1, FALSE)]
        ELSE IF p = None
        THEN [s |-> s1, F |-> w.F,
              c |-> [c1 EXCEPT !.pc = "sleep", !.attempt = @ + 1]]
        ELSE LET r  == get_working_proxies_start(s1, raw, t)
                 w2 == [s |-> r.s, F |-> w.F, c |-> LogCall(c1, "refresh_proxies")]
             IN  CASE r.ctl = "raise" -> DownloadDirect(w2)
                   [] r.ctl = "await" ->
                        [w2 EXCEPT !.c = [@ EXCEPT !.pc = "refresh",
                                                   !.probing = r.probing]]
                   [] OTHER -> DownloadAfterRefresh(w2, raw, pick, t)

\* lines 261-275: the response's status and headers are in
download_pdf_response(w, outcome, raw, pick, t) ==
    CASE outcome = "pdf" ->
            \* open(filename, "wb"), then the first chunk is awaited
            [w EXCEPT !.c = [@ EXCEPT !.pc = "stream", !.opened = @ + 1,
                                      !.file = TRUE]]
      [] outcome = "not_pdf" -> [w EXCEPT !.c = Returned(@, FALSE)]
      [] OTHER -> OnDownloadError(w, outcome, raw, pick, t)

\* lines 264-270: the body is read to its end, or reading it fails
download_pdf_stream(w, outcome, raw, pick, t) ==
    IF outcome = "ok"
    THEN LET p == w.c.proxy
         IN  [s |-> IF p # None THEN mark_proxy_success(w.s, p) ELSE w.s,
              F |-> [w.F EXCEPT !.pdfs_downloaded = @ + 1],
              c |-> Returned([(IF p # None
                               THEN LogOn(w.c, "mark_proxy_success", p)
                               ELSE w.c) EXCEPT !.met.ok = @ + 1],
                             TRUE)]
    ELSE OnDownloadError(w, outcome, raw, pick, t)

DownloadWorld == [s |-> pm, F |-> ft, c |-> dl]

\* w.c.pc = "invalid": the random.choice drawn is not one the state allowed
DownloadCommit(w) ==
    /\ w.c.pc # "invalid"
    /\ pm' = w.s
    /\ ft' = w.F
    /\ dl' = w.c
    /\ UNCHANGED <<fetch, budget, api, crawlVars, mn>>

\* ---- actions -----------------------------------------------------------

\* the caller starts download_pdf(url, filename); nothing is at filename
DownloadStart ==
    /\ dl.pc = "idle"
    /\ \A f \in Fetchers : fetch[f].pc \in {"idle", "done"}
    /\ \E raw \in RawLists, pick \in Proxies :
         DownloadCommit(download_pdf_begin(DownloadWorld, raw, pick, Now))

\* the gather of a refresh awaited inside one of the two get_proxy calls
\* returns
DownloadGetProxyRefreshed ==
    /\ dl.pc \in {"gp_r1", "gp_r2", "gp_r3"}
    /\ \E ok \in SUBSET Range(dl.probing), raw \in RawLists, pick \in Proxies :
         LET fin == get_working_proxies_finish(
                        pm, SelectSeq(dl.probing, LAMBDA p : p \in ok), Now)
             r   == get_proxy_resume(fin, dl.pc, raw, pick, Now)
         IN  DownloadCommit(IF dl.retrying
                            THEN DownloadRebound(DownloadWorld, r)
                            ELSE DownloadBound(DownloadWorld, r))

\* the gather of the refresh_proxies() of line 306 returns
DownloadRefreshed ==
    /\ dl.pc = "refresh"
    /\ \E ok \in SUBSET Range(dl.probing), raw \in RawLists, pick \in Proxies :
         LET fin == get_working_proxies_finish(
                        pm, SelectSeq(dl.probing, LAMBDA p : p \in ok), Now)
             w   == [DownloadWorld EXCEPT !.s = fin.s]
         IN  IF fin.ctl = "raise"
             THEN DownloadCommit(DownloadDirect(w))
             ELSE DownloadCommit(DownloadAfterRefresh(w, raw, pick, Now))

\* the sleep of line 328 is over and the next attempt's request goes out
DownloadSendRequest ==
    /\ dl.pc = "sleep"
    /\ dl' = DownloadRequest(dl)
    /\ UNCHANGED <<pm, ft, fetch, budget, api, crawlVars, mn>>

\* the request is answered, or fails before any of the body is read
DownloadResponse ==
    /\ dl.pc = "request"
    /\ \E outcome \in DownloadOutcomes, raw \in RawLists, pick \in Proxies :
         DownloadCommit(download_pdf_response(DownloadWorld, outcome, raw, pick, Now))

\* the body has been read to its end, or reading it failed
DownloadStream ==
    /\ dl.pc = "stream"
    /\ \E outcome \in StreamOutcomes, raw \in RawLists, pick \in Proxies :
         DownloadCommit(download_pdf_stream(DownloadWorld, outcome, raw, pick, Now))

(***************************************************************************)
(* The ProxyManager called method by method, one call after the other, as  *)
(* the Fetcher and tests/test_proxy_manager.py call it.                    *)
(***************************************************************************)
MaxOps == 3              \* calls the client makes

\* What is known of the client's current or last call: the method (op), its
\* arguments (arg, error_type), where it is suspended (pc, probing), how it
\* ended (kind: "return" or "raise"; val: the address returned; pool: the
\* list returned), and what it did on the way: whether the provider was
\* asked and what it answered (asked, raw), the probes that passed (passed),
\* the refresh_proxies() calls of a get_proxy (calls) and whether that
\* get_proxy reached its "if not self.proxy_list:" with an empty list (empty).
\* For a call of DataHandler.result_exists, exists is what it returned.
NewApi ==
    [op |-> "", pc |-> "idle", left |-> MaxOps, arg |-> None, error_type |-> None,
     probing |-> <<>>, kind |-> "", val |-> None, pool |-> <<>>,
     asked |-> FALSE, raw |-> <<>>, passed |-> <<>>, calls |-> 0, empty |-> FALSE,
     exists |-> FALSE]

ApiCall(op) == [NewApi EXCEPT !.op = op, !.left = api.left - 1]

ApiFree == api.pc \in {"idle", "done"} /\ api.left > 0

\* get_proxy reaches line 244 with an empty list: no binding, or one whose
\* blacklisting has not expired
ReachesEmptyBranch(s, t) ==
    /\ ~(s.force_direct_connection \/ s.debug_mode)
    /\ s.current_proxy # None => IsBlacklisted(s, s.current_proxy, t)
    /\ s.proxy_list = <<>>

\* await pm.get_working_proxies(), to its return or to its gather
CallRefresh ==
    /\ ApiFree
    /\ \E raw \in RawLists :
         LET r == get_working_proxies_start(pm, raw, Now)
         IN  /\ pm' = r.s
             /\ api' = [ApiCall("get_working_proxies") EXCEPT
                          !.pc = IF r.ctl = "await" THEN "gwp" ELSE "done",
                          !.kind = IF r.ctl = "await" THEN "" ELSE r.ctl,
                          !.pool = IF r.ctl = "return" THEN r.s.proxy_list ELSE <<>>,
                          !.probing = r.probing,
                          !.asked = r.asked,
                          !.raw = IF r.asked THEN raw ELSE <<>>]
    /\ UNCHANGED <<ft, fetch, budget, dl, crawlVars, mn>>

\* the gather returns: the probes of ok succeeded
Refreshed ==
    /\ api.pc = "gwp"
    /\ \E ok \in SUBSET Range(api.probing) :
         LET results == SelectSeq(api.probing, LAMBDA p : p \in ok)
             fin     == get_working_proxies_finish(pm, results, Now)
         IN  /\ pm' = fin.s
             /\ api' = [api EXCEPT
                          !.pc = "done", !.kind = fin.ctl, !.probing = <<>>,
                          !.passed = results,
                          !.pool = IF fin.ctl = "return" THEN fin.s.proxy_list
                                   ELSE <<>>]
    /\ UNCHANGED <<ft, fetch, budget, dl, crawlVars, mn>>

\* what a get_proxy that handed back r leaves to be known
ApiGot(a, r) ==
    [a EXCEPT !.pc = IF r.ctl = "await" THEN r.loc ELSE "done",
              !.kind = IF r.ctl = "await" THEN "" ELSE r.ctl,
              !.val = r.val,
              !.probing = r.probing,
              !.calls = @ + r.calls]

\* await pm.get_proxy(), to its return or to the gather of a refresh
CallGetProxy ==
    /\ ApiFree
    /\ \E raw \in RawLists, pick \in Proxies :
         LET r == get_proxy(pm, raw, pick, Now)
         IN  /\ r.ctl # "invalid"
             /\ pm' = r.s
             /\ api' = ApiGot([ApiCall("get_proxy") EXCEPT
                                 !.empty = ReachesEmptyBranch(pm, Now)], r)
    /\ UNCHANGED <<ft, fetch, budget, dl, crawlVars, mn>>

\* the gather of the refresh get_proxy awaits returns
GetProxyResumed ==
    /\ api.pc \in {"gp_r1", "gp_r2", "gp_r3"}
    /\ \E ok \in SUBSET Range(api.probing), raw \in RawLists, pick \in Proxies :
         LET results == SelectSeq(api.probing, LAMBDA p : p \in ok)
             fin     == get_working_proxies_finish(pm, results, Now)
             r       == get_proxy_resume(fin, api.pc, raw, pick, Now)
         IN  /\ r.ctl # "invalid"
             /\ pm' = r.s
             /\ api' = ApiGot([api EXCEPT !.passed = results], r)
    /\ UNCHANGED <<ft, fetch, budget, dl, crawlVars, mn>>

\* pm.remove_proxy(p)
CallRemoveProxy ==
    /\ ApiFree
    /\ \E p \in Proxies :
         /\ pm' = remove_proxy(pm, p, Now)
         /\ api' = [ApiCall("remove_proxy") EXCEPT
                      !.pc = "done", !.kind = "return", !.arg = p]
    /\ UNCHANGED <<ft, fetch, budget, dl, crawlVars, mn>>

\* pm.mark_proxy_failure(p, error_type)
CallMarkFailure ==
    /\ ApiFree
    /\ \E p \in Proxies, error_type \in ErrorTypes :
         /\ pm' = mark_proxy_failure(pm, p, error_type)
         /\ api' = [ApiCall("mark_proxy_failure") EXCEPT
                      !.pc = "done", !.kind = "return", !.arg = p,
                      !.error_type = error_type]
    /\ UNCHANGED <<ft, fetch, budget, dl, crawlVars, mn>>

\* pm.mark_proxy_success(p)
CallMarkSuccess ==
    /\ ApiFree
    /\ \E p \in Proxies :
         /\ pm' = mark_proxy_success(pm, p)
         /\ api' = [ApiCall("mark_proxy_success") EXCEPT
                      !.pc = "done", !.kind = "return", !.arg = p]
    /\ UNCHANGED <<ft, fetch, budget, dl, crawlVars, mn>>

\* the program is started again: a new ProxyManager is constructed and loads
\* the blacklist file the previous one saved
Restart ==
    /\ ApiFree
    /\ pm' = ProxyManagerInit(pm.blacklist_file, Now)
    /\ api' = [ApiCall("__init__") EXCEPT !.pc = "done", !.kind = "return"]
    /\ UNCHANGED <<ft, fetch, budget, dl, crawlVars, mn>>

(***************************************************************************)
(* Fetcher.scrape and Fetcher.fetch_cited_by_page                          *)
(*                                                                         *)
(* fetch_page(url) is here an awaited call that comes back with the page   *)
(* or with None; what it does to the proxy pool is modelled above.         *)
(* download_pdfs is False, the default of scrape that main relies on.      *)
(***************************************************************************)
PageStep == 10           \* "start_index += 10"
MaxPages == 2            \* search pages the query has
MaxResults == 2          \* scrape(num_results=...)
MaxDepth == 2            \* scrape(max_depth=...)

\* A parsed result is named by its article; its title and its article_url
\* are that name.
Articles == {"a1", "a2", "a3"}

\* result.get("cited_by_url"): a3 carries no "Cited by" link
cited_by_url(a) ==
    CASE a = "a1" -> "c1"
      [] a = "a2" -> "c2"
      [] OTHER    -> None

CitedUrls == {"c1", "c2"}

\* parse_results(html): what a search page and a cited-by page can hold
SearchPages == {<<>>, <<"a1">>, <<"a3", "a2">>, <<"a1", "a2">>}

CitedPages == {<<>>, <<"a1">>, <<"a3", "a2">>}

\* The pages of one query, and the page behind every cited-by link.  They do
\* not change while the program runs.
Webs ==
    [search : UNION {[1..n -> SearchPages] : n \in 1..MaxPages},
     cites  : [CitedUrls -> CitedPages]]

\* QueryBuilder.build_url(query, start_index, ...)
build_url(start_index) == "s" \o ToString(start_index)

PageNumber(start_index) == start_index \div PageStep + 1

\* parse_results of the search page at start_index; past the last page
\* Scholar serves a page without results
PageAt(w, start_index) ==
    IF PageNumber(start_index) <= Len(w.search)
    THEN w.search[PageNumber(start_index)]
    ELSE <<>>

\* parser.find_next_page(html_content): the page has a "Next" link
find_next_page(w, start_index) == PageNumber(start_index) < Len(w.search)

\* The table results is the sequence of its rows, each row taken by its
\* article_url (None for NULL), in the order of insertion.

\* DataHandler.result_exists(article_url):
\* "SELECT 1 FROM results WHERE article_url = ?", which no NULL satisfies
result_exists(st, url) ==
    url # None /\ \E i \in 1..Len(st) : st[i] = url

\* DataHandler.insert_result without the UNIQUE of "article_url TEXT UNIQUE"
insert_result_NotUnique(st, url) == Append(st, url)

\* DataHandler.insert_result: the INSERT of a row whose article_url is in the
\* table violates UNIQUE (NULLs never do), raises sqlite3.IntegrityError,
\* which is swallowed, and leaves the table as it was
insert_result(st, url) ==
    IF url # None /\ url \in Range(st) THEN st ELSE Append(st, url)

\* data_handler.add_result(result_data), which DataHandler does not define:
\* the duplicate-safe insert of the storage interface.  It stores the result
\* unless its article_url is stored already; db_id is truthy when it stored it
add_result(st, url) ==
    [store |-> insert_result(st, url), db_id |-> ~result_exists(st, url)]

NewGraph == [nodes |-> {}, edges |-> {}]

\* GraphBuilder.add_citation, without DOIs
add_citation(g, citing_title, citing_url, cited_by, cited_title) ==
    LET citing_node_id == IF citing_url # None THEN citing_url ELSE citing_title
        cited_node_id  == IF cited_by # None THEN cited_by
                          ELSE IF cited_title # None THEN cited_title
                          ELSE "Unknown Title"
    IN  [nodes |-> g.nodes \cup {citing_node_id, cited_node_id},
         edges |-> IF citing_node_id # cited_node_id
                   THEN g.edges \cup {<<citing_node_id, cited_node_id>>}
                   ELSE g.edges]

\* One scrape call: its arguments and locals, where it is suspended (pc),
\* what it returned (result), and a log of what it did:
\*   fetched   : the fetch_page calls, by URL, caller and depth
\*   added     : the article_urls it passed to add_result
\*   stored    : those of them add_result stored
\*   graphed   : the results it passed to add_citation
\*   store0    : what the store held when the call started
\*   failed    : the search pages whose fetch_page returned None
\*   downloads : the download_pdf calls that returned, by result, link and outcome
\*   pdf_path  : the results whose "pdf_path" it set
NewScrape(n, d, st) ==
    [pc |-> "loop", num_results |-> n, max_depth |-> d, start_index |-> 0,
     all_results |-> <<>>, results_on_page |-> <<>>, i |-> 0,
     citation_tasks |-> <<>>, result |-> <<>>, run |-> 1,
     fetched |-> {}, added |-> {}, stored |-> {}, graphed |-> {},
     store0 |-> Range(st), failed |-> {},
     download_pdfs |-> FALSE, downloads |-> {}, pdf_path |-> {}]

NoScrape == [NewScrape(0, 0, <<>>) EXCEPT !.pc = "idle"]

\* One fetch_cited_by_page coroutine: its arguments (url, depth), where it
\* is (pc: "start" until its first step), the results of its page, and the
\* coroutines of the next depth it has created and will return (tasks)
NewTask(url, depth) ==
    [url |-> url, depth |-> depth, pc |-> "start", results |-> <<>>, i |-> 0,
     tasks |-> <<>>]

Fetched(c, url, by, depth) ==
    [c EXCEPT !.fetched = @ \cup {[url |-> url, by |-> by, depth |-> depth]}]

\* "return all_results" without the slice
scrape_return_NoSlice(c) ==
    [c EXCEPT !.pc = "done", !.result = c.all_results]

\* line 709
scrape_return(c) ==
    [c EXCEPT !.pc = "done", !.result = Take(c.all_results, c.num_results)]

\* lines 695-707: after a page (parsed or not), up to the polite delay
scrape_after_page(c, w) ==
    IF Len(c.all_results) >= c.num_results THEN scrape_return(c)
    ELSE IF find_next_page(w, c.start_index)
    THEN [c EXCEPT !.pc = "loop", !.start_index = @ + PageStep]
    ELSE scrape_return(c)

\* lines 672-673, then 695-707
scrape_page_done(c, w) ==
    scrape_after_page([c EXCEPT !.all_results = @ \o c.results_on_page], w)

\* lines 662-670, from "if citation_tasks:".  X is the crawl's state:
\* c (the call), st (the store), g (the graph), t (the gathered coroutines)
scrape_gather(X, w) ==
    IF X.c.citation_tasks # <<>>
    THEN [X EXCEPT !.c.pc = "gather",
                   !.t = [k \in 1..Len(X.c.citation_tasks) |->
                            NewTask(X.c.citation_tasks[k], 1)]]
    ELSE [X EXCEPT !.c = scrape_page_done(@, w), !.t = <<>>]

\* result_data.get("pdf_url") and result_data.get("doi"): a1 carries both,
\* a2 a DOI only, a3 neither
pdf_url(a) == IF a = "a1" THEN "pdf" ELSE None

doi(a) == IF a \in {"a1", "a2"} THEN "doi" ELSE None

\* the result the loop of lines 607-660 is at, as the page it is on and its
\* name: the key of what the call did for it
Here(c) == [a |-> c.results_on_page[c.i], page |-> c.start_index]

Downloaded(c, via, ok) ==
    [c EXCEPT !.downloads = @ \cup {[a |-> Here(c).a, page |-> Here(c).page,
                                     via |-> via, ok |-> ok]},
              !.pdf_path = IF ok THEN @ \cup {Here(c)} ELSE @]

RECURSIVE scrape_results(_, _)

\* lines 643-660 for result c.i: add_result, and on with the loop up to the
\* next await that suspends
scrape_add(X, w) ==
    LET a  == X.c.results_on_page[X.c.i]
        r  == add_result(X.st, a)
        c1 == [X.c EXCEPT !.added = @ \cup {a}]
        c2 == [c1 EXCEPT !.stored = @ \cup {a}]
    IN  IF ~r.db_id
        THEN scrape_results([X EXCEPT !.st = r.store,
                                      !.c = [c1 EXCEPT !.i = @ + 1]], w)
        ELSE IF cited_by_url(a) # None
        THEN \* extract_cited_title awaits fetch_page(cited_by_url)
             [X EXCEPT !.st = r.store,
                       !.c = Fetched([c2 EXCEPT !.pc = "title"],
                                     cited_by_url(a), "extract_cited_title", 0)]
        ELSE scrape_results(
               [X EXCEPT !.st = r.store,
                         !.g = add_citation(X.g, a, a, None, None),
                         !.c = [c2 EXCEPT !.i = @ + 1,
                                          !.graphed = @ \cup {a}]], w)

\* lines 621-641: the second attempt, by DOI, up to "await
\* self.scrape_pdf_link(doi)"; without it, on to add_result
scrape_doi(X, w) ==
    IF Here(X.c) \notin X.c.pdf_path /\ doi(Here(X.c).a) # None
    THEN [X EXCEPT !.c.pc = "pdf_link"]
    ELSE scrape_add(X, w)

\* lines 608-619: the first attempt, up to "await self.download_pdf(...)"
scrape_pdfs(X, w) ==
    IF pdf_url(Here(X.c).a) # None
    THEN [X EXCEPT !.c.pc = "pdf_direct"]
    ELSE scrape_doi(X, w)

\* lines 617-619: download_pdf(direct_pdf_url, ...) has returned ok
scrape_pdf_direct(X, w, ok) ==
    scrape_doi([X EXCEPT !.c = Downloaded(@, "direct", ok)], w)

\* lines 626-636: scrape_pdf_link(doi) has returned a URL (found) or None
scrape_pdf_link(X, w, found) ==
    IF found THEN [X EXCEPT !.c.pc = "pdf_doi"] ELSE scrape_add(X, w)

\* scrape_pdf_doi as it would be if a result whose downloads all failed were
\* dropped: "continue" in the else of lines 640-641
scrape_pdf_doi_Discards(X, w, ok) ==
    IF ok THEN scrape_add([X EXCEPT !.c = Downloaded(@, "doi", ok)], w)
    ELSE scrape_results([X EXCEPT !.c = [Downloaded(@, "doi", ok) EXCEPT
                                            !.i = @ + 1]], w)

\* lines 631-641: download_pdf(pdf_url_from_doi, ...) has returned ok
scrape_pdf_doi(X, w, ok) ==
    scrape_add([X EXCEPT !.c = Downloaded(@, "doi", ok)], w)

\* the "for result_data in results_on_page" loop (lines 607-660) from result
\* c.i on, up to its next await that suspends, and on past the loop when it
\* ends
scrape_results(X, w) ==
    IF X.c.i > Len(X.c.results_on_page) THEN scrape_gather(X, w)
    ELSE IF X.c.download_pdfs THEN scrape_pdfs(X, w)
    ELSE scrape_add(X, w)

\* lines 648-660 without the "max_depth > 0" of line 655
scrape_titled_AnyDepth(X, w, cited_title) ==
    LET a  == X.c.results_on_page[X.c.i]
        cb == cited_by_url(a)
    IN  scrape_results(
            [X EXCEPT !.g = add_citation(X.g, a, a, cb, cited_title),
                      !.c = [@ EXCEPT !.i = @ + 1, !.graphed = @ \cup {a},
                                      !.citation_tasks = Append(@, cb)]], w)

\* lines 648-660, once extract_cited_title has returned cited_title, and on
\* with the loop
scrape_titled(X, w, cited_title) ==
    LET a  == X.c.results_on_page[X.c.i]
        cb == cited_by_url(a)
    IN  scrape_results(
            [X EXCEPT !.g = add_citation(X.g, a, a, cb, cited_title),
                      !.c = [@ EXCEPT !.i = @ + 1, !.graphed = @ \cup {a},
                                      !.citation_tasks =
                                          IF cb # None /\ X.c.max_depth > 0
                                          THEN Append(@, cb) ELSE @]], w)

\* what the fetch_page of a page can come to: the page, None, or a page the
\* parser raises ParsingException on
PageOutcomes == {"ok", "fail", "unparsable"}

\* scrape_response as it would be if a page that cannot be fetched ended the
\* crawl: "break" in place of lines 578-581
scrape_response_Aborts(X, w, outcome) ==
    CASE outcome = "fail" ->
            [X EXCEPT !.c = scrape_return(
                                [@ EXCEPT !.failed = @ \cup {X.c.start_index}])]
      [] outcome = "unparsable" ->
            [X EXCEPT !.c = scrape_after_page(@, w)]
      [] OTHER ->
            IF PageAt(w, X.c.start_index) = <<>>
            THEN [X EXCEPT !.c = scrape_return(@)]
            ELSE scrape_results(
                    [X EXCEPT !.c = [@ EXCEPT
                        !.results_on_page = PageAt(w, X.c.start_index),
                        !.i = 1, !.citation_tasks = <<>>]], w)

\* lines 576-604 and 690-707: fetch_page(url) has returned
scrape_response(X, w, outcome) ==
    CASE outcome = "fail" ->
            [X EXCEPT !.c = [@ EXCEPT !.pc = "loop", !.start_index = @ + PageStep,
                                      !.failed = @ \cup {X.c.start_index}]]
      [] outcome = "unparsable" ->
            [X EXCEPT !.c = scrape_after_page(@, w)]
      [] OTHER ->
            IF PageAt(w, X.c.start_index) = <<>>
            THEN [X EXCEPT !.c = scrape_return(@)]
            ELSE scrape_results(
                    [X EXCEPT !.c = [@ EXCEPT
                        !.results_on_page = PageAt(w, X.c.start_index),
                        !.i = 1, !.citation_tasks = <<>>]], w)

\* lines 565-575: the loop's head, up to "await self.fetch_page(url)"
RECURSIVE scrape_loop(_, _)
scrape_loop(c, st) ==
    IF Len(c.all_results) >= c.num_results THEN scrape_return(c)
    ELSE IF result_exists(st, build_url(c.start_index))
    THEN scrape_loop([c EXCEPT !.start_index = @ + PageStep], st)
    ELSE Fetched([c EXCEPT !.pc = "fetch"], build_url(c.start_index), "scrape", 0)

\* fetch_cited_by_page handing its children over as running tasks, as
\* asyncio.create_task would, in place of returning the coroutines
fetch_cited_by_page_return_Spawns(ts, k) ==
    [ts EXCEPT ![k].pc = "done", ![k].tasks = <<>>]
        \o [j \in 1..Len(ts[k].tasks) |-> NewTask(ts[k].tasks[j], ts[k].depth + 1)]

\* "return tasks" (line 488) and "return []" (line 470)
fetch_cited_by_page_return(ts, k) == [ts EXCEPT ![k].pc = "done"]

\* the loop of lines 478-485 of coroutine k from its result i on, up to its
\* next fetch_page or to its return
RECURSIVE cited_results(_, _)
cited_results(X, k) ==
    IF X.t[k].i > Len(X.t[k].results)
    THEN [X EXCEPT !.t = fetch_cited_by_page_return(@, k)]
    ELSE LET a  == X.t[k].results[X.t[k].i]
             cb == cited_by_url(a)
         IN  IF cb # None
             THEN [X EXCEPT !.t[k].pc = "title",
                            !.c = Fetched(@, cb, "extract_cited_title", X.t[k].depth)]
             ELSE cited_results(
                    [X EXCEPT !.g = add_citation(@, a, X.t[k].url, None, None),
                              !.t[k].i = @ + 1], k)

\* lines 480-485 without the "depth + 1 <= max_depth" of line 483
cited_titled_AnyDepth(X, k, cited_title) ==
    LET a  == X.t[k].results[X.t[k].i]
        cb == cited_by_url(a)
    IN  cited_results(
            [X EXCEPT !.g = add_citation(@, a, X.t[k].url, cb, cited_title),
                      !.t[k] = [@ EXCEPT !.i = @ + 1,
                                  !.tasks = IF cb # None THEN Append(@, cb) ELSE @]], k)

\* lines 480-485, once extract_cited_title has returned, and on with the loop
cited_titled(X, k, cited_title) ==
    LET a  == X.t[k].results[X.t[k].i]
        cb == cited_by_url(a)
    IN  cited_results(
            [X EXCEPT !.g = add_citation(@, a, X.t[k].url, cb, cited_title),
                      !.t[k] = [@ EXCEPT !.i = @ + 1,
                                  !.tasks =
                                      IF cb # None /\ X.t[k].depth + 1 <= X.c.max_depth
                                      THEN Append(@, cb) ELSE @]], k)

\* lines 469-473: coroutine k runs to "await self.fetch_page(url)"
fetch_cited_by_page_begin(X, k) ==
    IF X.t[k].depth > X.c.max_depth
    THEN [X EXCEPT !.t = fetch_cited_by_page_return(@, k)]
    ELSE [X EXCEPT !.t[k].pc = "fetch",
                   !.c = Fetched(@, X.t[k].url, "fetch_cited_by_page", X.t[k].depth)]

\* lines 474-488: fetch_page(url) has returned
fetch_cited_by_page_response(X, w, k, outcome) ==
    IF outcome = "ok"
    THEN cited_results(
            [X EXCEPT !.t[k] = [@ EXCEPT !.results = w.cites[X.t[k].url],
                                        !.i = 1]], k)
    ELSE [X EXCEPT !.t = fetch_cited_by_page_return(@, k)]

\* "[task for sublist in nested_tasks for task in sublist ...]"
RECURSIVE FlatTasks(_)
FlatTasks(ts) ==
    IF ts = <<>> THEN <<>>
    ELSE [j \in 1..Len(Head(ts).tasks) |->
            NewTask(Head(ts).tasks[j], Head(ts).depth + 1)]
         \o FlatTasks(Tail(ts))

\* lines 663-673: a gather has returned
gather_return(X, w) ==
    IF FlatTasks(X.t) # <<>>
    THEN [X EXCEPT !.t = FlatTasks(X.t)]
    ELSE [X EXCEPT !.t = <<>>, !.c = scrape_page_done(@, w)]

CrawlWorld == [c |-> cr, st |-> store, g |-> graph, t |-> tks]

CrawlCommit(X) ==
    /\ cr' = X.c
    /\ store' = X.st
    /\ graph' = X.g
    /\ tks' = X.t
    /\ UNCHANGED <<web, poolVars, dl, api, mn>>

\* ---- actions -----------------------------------------------------------

\* the polite delay is over (or scrape was just called): the next search
\* page is asked for.  The offset is kept within one page past the last.
ScrapeLoop ==
    /\ cr.pc = "loop"
    /\ cr.start_index <= PageStep * MaxPages
    /\ CrawlCommit([CrawlWorld EXCEPT !.c = scrape_loop(cr, store)])

\* the fetch_page of the search page returns
ScrapeResponse ==
    /\ cr.pc = "fetch"
    /\ \E outcome \in PageOutcomes :
         CrawlCommit(scrape_response(CrawlWorld, web, outcome))

\* The offsets past the last page of the query are not told apart: they all
\* stand for Beyond, where no page is.
Beyond == PageStep * (MaxPages + 1)

Near(X) == [X EXCEPT !.c.start_index = IF @ > Beyond THEN Beyond ELSE @]

\* lines 565-575 at an offset past the last page: the page is asked for
ScrapeFar ==
    /\ cr.pc = "loop"
    /\ cr.start_index > PageStep * MaxPages
    /\ scrape_loop(cr, store).pc = "fetch"
    /\ CrawlCommit([CrawlWorld EXCEPT !.c = [scrape_loop(cr, store) EXCEPT !.pc = "far"]])

\* lines 576-604 and 690-707 at an offset past the last page: fetch_page
\* returns
ScrapeFarResponse ==
    /\ cr.pc = "far"
    /\ \E outcome \in PageOutcomes :
         CrawlCommit(Near(scrape_response([CrawlWorld EXCEPT !.c.pc = "fetch"],
                                          web, outcome)))

\* the fetch_page of extract_cited_title returns, with a page or without
ScrapeTitle ==
    /\ cr.pc = "title"
    /\ \E cited_title \in {"a title", "Unknown Title"} :
         CrawlCommit(scrape_titled(CrawlWorld, web, cited_title))

\* the download_pdf of a result's own PDF link returns
ScrapePdfDirect ==
    /\ cr.pc = "pdf_direct"
    /\ \E ok \in BOOLEAN : CrawlCommit(scrape_pdf_direct(CrawlWorld, web, ok))

\* scrape_pdf_link returns, with a link or without
ScrapePdfLink ==
    /\ cr.pc = "pdf_link"
    /\ \E found \in BOOLEAN : CrawlCommit(scrape_pdf_link(CrawlWorld, web, found))

\* the download_pdf of the link found by DOI returns
ScrapePdfDoi ==
    /\ cr.pc = "pdf_doi"
    /\ \E ok \in BOOLEAN : CrawlCommit(scrape_pdf_doi(CrawlWorld, web, ok))

\* the event loop runs a gathered coroutine for the first time
TaskStart(k) ==
    /\ cr.pc = "gather"
    /\ tks[k].pc = "start"
    /\ CrawlCommit(fetch_cited_by_page_begin(CrawlWorld, k))

\* its fetch_page returns
TaskResponse(k) ==
    /\ cr.pc = "gather"
    /\ tks[k].pc = "fetch"
    /\ \E outcome \in PageOutcomes :
         CrawlCommit(fetch_cited_by_page_response(CrawlWorld, web, k, outcome))

\* the fetch_page of its extract_cited_title returns
TaskTitle(k) ==
    /\ cr.pc = "gather"
    /\ tks[k].pc = "title"
    /\ \E cited_title \in {"a title", "Unknown Title"} :
         CrawlCommit(cited_titled(CrawlWorld, k, cited_title))

\* every gathered coroutine has returned: asyncio.gather returns
GatherReturn ==
    /\ cr.pc = "gather"
    /\ \A k \in 1..Len(tks) : tks[k].pc = "done"
    /\ CrawlCommit(gather_return(CrawlWorld, web))

\* the program is run again with the same arguments: a new GraphBuilder, the
\* same database file
ScrapeAgain ==
    /\ cr.pc = "done"
    /\ cr.run = 1
    /\ cr' = [NewScrape(cr.num_results, cr.max_depth, store) EXCEPT !.run = 2]
    /\ graph' = NewGraph
    /\ tks' = <<>>
    /\ UNCHANGED <<web, store, poolVars, dl, api, mn>>

(***************************************************************************)
(* The DataHandler called method by method, as tests/test_data_handler.py  *)
(* calls it.                                                               *)
(***************************************************************************)
\* the article_url of the result passed: one of the articles, or None
ArticleUrls == Articles \cup {None}

\* await data_handler.insert_result(result)
CallInsertResult ==
    /\ ApiFree
    /\ \E url \in ArticleUrls :
         /\ store' = insert_result(store, url)
         /\ api' = [ApiCall("insert_result") EXCEPT
                      !.pc = "done", !.kind = "return", !.arg = url]
    /\ UNCHANGED <<poolVars, dl, web, graph, cr, tks, mn>>

\* await data_handler.result_exists(article_url)
CallResultExists ==
    /\ ApiFree
    /\ \E url \in ArticleUrls :
         api' = [ApiCall("result_exists") EXCEPT
                   !.pc = "done", !.kind = "return", !.arg = url,
                   !.exists = result_exists(store, url)]
    /\ UNCHANGED <<poolVars, dl, crawlVars, mn>>

(***************************************************************************)
(* main (main.py), from its top-level "try:" of line 83 on.  The calls it  *)
(* awaits on the Fetcher (fetch_author_profile, scrape_publication_details,*)
(* scrape) are taken by how they end: they return or they raise.           *)
(***************************************************************************)
\* main() about to enter its try, with the parsed arguments args
NewMain(args) ==
    [pc |-> "refresh", args |-> args, probing |-> <<>>,
     client |-> None,        \* Fetcher.client: None, "open" or "closed"
     errors |-> 0,           \* logging.error calls
     criticals |-> 0,        \* logging.critical calls
     scrape |-> 0,           \* fetcher.scrape calls
     fetch_author_profile |-> 0,
     close |-> 0,            \* fetcher.close calls
     log_proxy_performance |-> 0,
     path |-> "",            \* how the try statement was left
     exit_code |-> None]

NoMain == [NewMain([author_profile |-> FALSE, json |-> FALSE, recursive |-> FALSE])
             EXCEPT !.pc = "idle"]

MainArgs == [author_profile : BOOLEAN, json : BOOLEAN, recursive : BOOLEAN]

\* main_report without "proxy_manager.log_proxy_performance()"
main_report_Skipped(m) == [m EXCEPT !.pc = "exit", !.exit_code = 0]

\* lines 194-195, then main returns and asyncio.run(main()) (line 199) with
\* it: the interpreter exits with status 0
main_report(m) ==
    [m EXCEPT !.log_proxy_performance = @ + 1, !.pc = "exit", !.exit_code = 0]

\* "finally:" (line 192): fetcher.close() is called, and suspends only if
\* there is an open session to close
main_finally(m) ==
    LET m1 == [m EXCEPT !.close = @ + 1]
    IN  IF m1.client = "open" THEN [m1 EXCEPT !.pc = "closing"]
        ELSE main_report(m1)

\* the try statement is left by a return or by reaching its end
main_return(m, path) == main_finally([m EXCEPT !.path = path])

\* "except Exception" (lines 186-190)
main_except(m) ==
    main_finally([m EXCEPT !.criticals = @ + 1, !.path = "exception"])

\* "except NoProxiesAvailable" (lines 86-88): logging.error, return
main_no_proxies(m) ==
    main_return([m EXCEPT !.errors = @ + 1], "no_proxies")

\* lines 90-91 and 138: the call of the mode chosen by args is made
main_dispatch(m) ==
    IF m.args.author_profile
    THEN [m EXCEPT !.pc = "profile", !.fetch_author_profile = @ + 1,
                   !.probing = <<>>]
    ELSE [m EXCEPT !.pc = "scrape", !.scrape = @ + 1, !.probing = <<>>]

\* the session the awaited call left: fetch_page creates it (line 69)
Session(m, opened) == IF opened THEN [m EXCEPT !.client = "open"] ELSE m

\* lines 91-136 from the return of fetch_author_profile
main_profile(m, outcome) ==
    CASE outcome = "raise"   -> main_except(m)
      [] outcome = "none"    -> main_return(m, "end")
      [] outcome = "ioerror" ->
            IF m.args.json THEN main_except(m)
            ELSE main_return([m EXCEPT !.errors = @ + 1], "ioerror")
      [] OTHER ->
            IF m.args.recursive THEN [m EXCEPT !.pc = "recursive"]
            ELSE main_return(m, "end")

\* lines 105-136: the loop over the publications is left
main_recursive(m, outcome) ==
    CASE outcome = "raise" -> main_except(m)
      [] OTHER             -> main_return(m, "end")

\* lines 138-184 from the return of scrape
main_scrape(m, outcome) ==
    CASE outcome = "raise"   -> main_except(m)
      [] outcome = "ioerror" -> main_return([m EXCEPT !.errors = @ + 1], "ioerror")
      [] OTHER               -> main_return(m, "end")

\* "await proxy_manager.get_working_proxies()" (line 85), to its return, its
\* raise or its gather
MainRefresh ==
    /\ mn.pc = "refresh"
    /\ \E raw \in RawLists :
         LET r == get_working_proxies_start(pm, raw, Now)
         IN  /\ pm' = r.s
             /\ mn' = CASE r.ctl = "raise" -> main_no_proxies(mn)
                        [] r.ctl = "await" ->
                             [mn EXCEPT !.pc = "probing", !.probing = r.probing]
                        [] OTHER           -> main_dispatch(mn)
    /\ UNCHANGED <<ft, fetch, budget, dl, api, crawlVars>>

\* the gather of the initial refresh returns: the probes of ok succeeded
MainRefreshed ==
    /\ mn.pc = "probing"
    /\ \E ok \in SUBSET Range(mn.probing) :
         LET fin == get_working_proxies_finish(
                        pm, SelectSeq(mn.probing, LAMBDA p : p \in ok), Now)
         IN  /\ pm' = fin.s
             /\ mn' = IF fin.ctl = "raise" THEN main_no_proxies(mn)
                      ELSE main_dispatch(mn)
    /\ UNCHANGED <<ft, fetch, budget, dl, api, crawlVars>>

\* fetch_author_profile returns (author data, or None) or raises, and the
\* data is saved, or saving it fails
MainProfileEnds ==
    /\ mn.pc = "profile"
    /\ \E outcome \in {"data", "none", "ioerror", "raise"}, opened \in BOOLEAN :
         mn' = main_profile(Session(mn, opened), outcome)
    /\ UNCHANGED <<poolVars, dl, api, crawlVars>>

\* the publications of the author have been scraped, or one scrape raised
MainRecursiveEnds ==
    /\ mn.pc = "recursive"
    /\ \E outcome \in {"done", "raise"}, opened \in BOOLEAN :
         mn' = main_recursive(Session(mn, opened), outcome)
    /\ UNCHANGED <<poolVars, dl, api, crawlVars>>

\* scrape returns or raises, and the results and the graph are saved, or
\* saving them fails
MainScrapeEnds ==
    /\ mn.pc = "scrape"
    /\ \E outcome \in {"saved", "ioerror", "raise"}, opened \in BOOLEAN :
         mn' = main_scrape(Session(mn, opened), outcome)
    /\ UNCHANGED <<poolVars, dl, api, crawlVars>>

\* "await self.client.close()" returns
MainClosed ==
    /\ mn.pc = "closing"
    /\ mn' = main_report([mn EXCEPT !.client = "closed"])
    /\ UNCHANGED <<poolVars, dl, api, crawlVars>>

NoWeb == [search |-> <<>>, cites |-> [u \in CitedUrls |-> <<>>]]

InitPool ==
    /\ pm = NewProxyManager
    /\ ft = NewFetcher
    /\ fetch = [f \in Fetchers |-> NewCall]
    /\ dl = NewDownload
    /\ web = NoWeb
    /\ store = <<>>
    /\ graph = NewGraph
    /\ cr = NoScrape
    /\ tks = <<>>
    /\ api = NewApi
    /\ mn = NoMain

\* one caller, fetch_page after fetch_page
Init ==
    /\ InitPool
    /\ budget = [f \in Fetchers |-> IF f = "A" THEN MaxCalls ELSE 0]

\* fetch_pages(urls) / the gather of a citation fan-out: the calls run
\* concurrently on the one ProxyManager
InitConc ==
    /\ InitPool
    /\ budget = [f \in Fetchers |-> 1]

Next ==
    \/ \E f \in Fetchers : FetchStart(f)
    \/ \E f \in Fetchers : GetProxyRefreshed(f)
    \/ \E f \in Fetchers : SendRequest(f)
    \/ \E f \in Fetchers : Response(f)
    \/ \E f \in Fetchers : CaptchaRefreshed(f)
    \/ Tick

vars == <<pm, ft, fetch, budget, dl, web, store, graph, cr, tks, api, mn>>

Spec == Init /\ [][Next]_vars

\* a single fetch_page call on a new ProxyManager
InitOne ==
    /\ InitPool
    /\ budget = [f \in Fetchers |-> IF f = "A" THEN 1 ELSE 0]

SpecOne == InitOne /\ [][Next]_vars

NextConc ==
    \/ \E f \in Fetchers : FetchStart(f)
    \/ \E f \in Fetchers : GetProxyRefreshed(f)
    \/ \E f \in Fetchers : SendRequest(f)
    \/ \E f \in Fetchers : ConcResponse(f)
    \/ \E f \in Fetchers : CaptchaRefreshed(f)
    \/ Tick

SpecConc == InitConc /\ [][NextConc]_vars

\* one caller: at most one fetch_page, then one download_pdf
InitDownload ==
    /\ InitPool
    /\ budget = [f \in Fetchers |-> IF f = "A" THEN 1 ELSE 0]

DownloadFetchStart(f) ==
    /\ dl.pc = "idle"
    /\ FetchStart(f)

NextDownload ==
    \/ \E f \in Fetchers : DownloadFetchStart(f)
    \/ \E f \in Fetchers : GetProxyRefreshed(f)
    \/ \E f \in Fetchers : SendRequest(f)
    \/ \E f \in Fetchers : Response(f)
    \/ \E f \in Fetchers : CaptchaRefreshed(f)
    \/ DownloadStart
    \/ DownloadGetProxyRefreshed
    \/ DownloadRefreshed
    \/ DownloadSendRequest
    \/ DownloadResponse
    \/ DownloadStream
    \/ Tick

SpecDownload == InitDownload /\ [][NextDownload]_vars

\* scrape(query, ..., num_results, ..., max_depth, graph_builder, data_handler)
\* on an empty database
InitCrawl ==
    /\ pm = NewProxyManager
    /\ ft = NewFetcher
    /\ fetch = [f \in Fetchers |-> NewCall]
    /\ budget = [f \in Fetchers |-> 0]
    /\ dl = NewDownload
    /\ web \in Webs
    /\ store = <<>>
    /\ graph = NewGraph
    /\ tks = <<>>
    /\ api = NewApi
    /\ mn = NoMain
    /\ \E n \in 1..MaxResults, d \in 0..MaxDepth : cr = NewScrape(n, d, <<>>)

NextCrawl ==
    \/ ScrapeLoop
    \/ ScrapeResponse
    \/ ScrapeTitle
    \/ \E k \in 1..Len(tks) : TaskStart(k)
    \/ \E k \in 1..Len(tks) : TaskResponse(k)
    \/ \E k \in 1..Len(tks) : TaskTitle(k)
    \/ GatherReturn

SpecCrawl == InitCrawl /\ [][NextCrawl]_vars

\* scrape(..., download_pdfs=True), on a database that an earlier run may
\* have left with a result in it
EarlierStores == {<<>>, <<"a1">>}

\* the pages of the query; the pages behind the cited-by links hold nothing
EnrichWebs == {w \in Webs : w.cites = NoWeb.cites}

InitEnrich ==
    /\ pm = NewProxyManager
    /\ ft = NewFetcher
    /\ fetch = [f \in Fetchers |-> NewCall]
    /\ budget = [f \in Fetchers |-> 0]
    /\ dl = NewDownload
    /\ web \in EnrichWebs
    /\ store \in EarlierStores
    /\ graph = NewGraph
    /\ tks = <<>>
    /\ api = NewApi
    /\ mn = NoMain
    /\ \E n \in 1..MaxResults, d \in 0..MaxDepth :
         cr = [NewScrape(n, d, store) EXCEPT !.download_pdfs = TRUE]

NextEnrich ==
    \/ ScrapeLoop
    \/ ScrapeResponse
    \/ ScrapeTitle
    \/ \E k \in 1..Len(tks) : TaskStart(k)
    \/ \E k \in 1..Len(tks) : TaskResponse(k)
    \/ GatherReturn
    \/ ScrapePdfDirect
    \/ ScrapePdfLink
    \/ ScrapePdfDoi

SpecEnrich == InitEnrich /\ [][NextEnrich]_vars

NextRerun ==
    \/ NextCrawl
    \/ ScrapeAgain

SpecRerun == InitCrawl /\ [][NextRerun]_vars

\* scrape(max_depth=0) on an event loop that resumes it whenever the call it
\* awaits has
\* ended; every fetch_page ends, after its max_retries attempts at the latest
InitForever ==
    /\ InitCrawl
    /\ cr.max_depth = 0

NextForever ==
    \/ ScrapeLoop
    \/ ScrapeResponse
    \/ ScrapeTitle
    \/ ScrapeFar
    \/ ScrapeFarResponse

SpecForever == InitForever /\ [][NextForever]_vars /\ WF_vars(NextForever)

\* a client of the ProxyManager alone: no fetch_page call is ever started
InitApi ==
    /\ InitPool
    /\ budget = [f \in Fetchers |-> 0]

NextApi ==
    \/ CallRefresh
    \/ Refreshed
    \/ CallGetProxy
    \/ GetProxyResumed
    \/ CallRemoveProxy
    \/ CallMarkFailure
    \/ CallMarkSuccess
    \/ Restart
    \/ Tick

SpecApi == InitApi /\ [][NextApi]_vars

\* ProxyManager(force_direct_connection=True): one caller of fetch_page and
\* a client of the ProxyManager
InitDirect ==
    /\ pm = [NewProxyManager EXCEPT !.force_direct_connection = TRUE]
    /\ ft = NewFetcher
    /\ fetch = [f \in Fetchers |-> NewCall]
    /\ budget = [f \in Fetchers |-> IF f = "A" THEN MaxCalls ELSE 0]
    /\ dl = NewDownload
    /\ web = NoWeb
    /\ store = <<>>
    /\ graph = NewGraph
    /\ cr = NoScrape
    /\ tks = <<>>
    /\ api = NewApi
    /\ mn = NoMain

NextDirect ==
    \/ \E f \in Fetchers : FetchStart(f)
    \/ \E f \in Fetchers : SendRequest(f)
    \/ \E f \in Fetchers : Response(f)
    \/ CallRefresh
    \/ CallGetProxy
    \/ Tick

SpecDirect == InitDirect /\ [][NextDirect]_vars

\* a client of the DataHandler alone, on an empty table
NextStore ==
    \/ CallInsertResult
    \/ CallResultExists

SpecStore == InitApi /\ [][NextStore]_vars

\* one run of main, with any arguments
InitMain ==
    /\ pm = NewProxyManager
    /\ ft = NewFetcher
    /\ fetch = [f \in Fetchers |-> NewCall]
    /\ budget = [f \in Fetchers |-> 0]
    /\ dl = NewDownload
    /\ web = NoWeb
    /\ store = <<>>
    /\ graph = NewGraph
    /\ cr = NoScrape
    /\ tks = <<>>
    /\ api = NewApi
    /\ \E args \in MainArgs : mn = NewMain(args)

NextMain ==
    \/ MainRefresh
    \/ MainRefreshed
    \/ MainProfileEnds
    \/ MainRecursiveEnds
    \/ MainScrapeEnds
    \/ MainClosed

\* every call main awaits ends, and the event loop resumes main
SpecMain == InitMain /\ [][NextMain]_vars /\ WF_vars(NextMain)

(***************************************************************************)
(* Claims                                                                  *)
(***************************************************************************)

\* C1: in every reachable state of the pool, also while the probes of a
\* refresh are in flight and another fetch evicts an address, no address is
\* both in the active pool (proxy_list) and blacklisted (in the blacklist,
\* its blacklist_duration not yet over).
C1_NeverActiveAndBlacklisted ==
    \A p \in Range(pm.proxy_list) : ~IsBlacklisted(pm, p, Now)

MarkedFailures(c) ==
    c.log.mark_proxy_failure["TIMEOUT"] + c.log.mark_proxy_failure["CONNECTION"]
    + c.log.mark_proxy_failure["OTHER"] + c.log.mark_proxy_failure["CAPTCHA"]

\* C2: sticky retry.  With max_retries = 3, a fetch_page call whose proxy
\* failed its first two requests and answered the third returns the content;
\* it called get_proxy once, mark_proxy_failure twice and mark_proxy_success
\* once, always with the address it acquired, sent all three requests through
\* it and never removed it: the address is not blacklisted.
C2_StickyRetry ==
    \A f \in Fetchers :
        LET c == fetch[f]
        IN  (/\ c.pc = "done"
             /\ c.proxy # None
             /\ c.met = [ok |-> 1, captcha |-> 0, failed |-> 2])
            => /\ c.result = "content"
               /\ c.log.get_proxy = 1
               /\ c.log.request = 3
               /\ MarkedFailures(c) = 2
               /\ c.log.mark_proxy_failure["CAPTCHA"] = 0
               /\ c.log.mark_proxy_success = 1
               /\ c.log.addresses = {c.proxy}
               /\ c.log.remove_proxy = 0
               /\ ~IsBlacklisted(pm, c.proxy, Now)

C2_Witness ==
    \E f \in Fetchers :
        /\ fetch[f].pc = "done"
        /\ fetch[f].proxy # None
        /\ fetch[f].met = [ok |-> 1, captcha |-> 0, failed |-> 2]
        /\ fetch[f].result = "content"

C4_EvictionOnExhaustion ==
    \A f \in Fetchers :
        LET c == fetch[f]
        IN  (c.proxy # None /\ c.met.failed = MaxRetries)
            => /\ c.pc = "done"
               /\ c.result = None
               /\ c.log.request = MaxRetries
               /\ MarkedFailures(c) = MaxRetries
               /\ c.log.remove_proxy = 1
               /\ c.log.addresses = {c.proxy}
               /\ c.proxy \notin Range(pm.proxy_list)
               /\ c.proxy \in DOMAIN pm.blacklist

C4_Witness ==
    \E f \in Fetchers :
        /\ fetch[f].pc = "done"
        /\ fetch[f].proxy # None
        /\ fetch[f].met = [ok |-> 0, captcha |-> 0, failed |-> MaxRetries]
        /\ fetch[f].log.remove_proxy = 1
        /\ IsBlacklisted(pm, fetch[f].proxy, Now)

\* C5: after a download call has returned, a file exists at the destination
\* path if and only if the call returned true, whatever its attempts met
\* (wrong content type, transport failure before the body, transport failure
\* while the body is streamed, success); a non-PDF response writes no file.
C5_FileIffTrue ==
    dl.pc = "done" => (dl.file <=> dl.result = TRUE)

\* a gathered fetch_cited_by_page coroutine that has begun and not returned
Running(tk) == tk.pc \in {"fetch", "title"}

C7_ResultCap ==
    cr.pc = "done" => Len(cr.result) <= cr.num_results

C7_Witness ==
    /\ cr.pc = "done"
    /\ Len(cr.all_results) > cr.num_results
    /\ Len(cr.result) = cr.num_results

\* C8, as stated: with max_depth = 0 no cited-by URL is ever fetched.
C8_NoCitedByFetch ==
    cr.max_depth = 0 => \A e \in cr.fetched : e.url \notin CitedUrls

\* C8, amended: with max_depth = 0 no fetch_cited_by_page coroutine is created
\* or run, whatever links the results carry; the cited-by URLs that are
\* fetched are fetched by extract_cited_title, for results this call stored.
C8_NoExpansionAtDepthZero ==
    cr.max_depth = 0 =>
        /\ tks = <<>>
        /\ cr.citation_tasks = <<>>
        /\ \A e \in cr.fetched :
             /\ e.by # "fetch_cited_by_page"
             /\ e.url \in CitedUrls =>
                  /\ e.by = "extract_cited_title"
                  /\ \E a \in cr.stored : cited_by_url(a) = e.url

C8_Witness ==
    /\ cr.max_depth = 0
    /\ cr.pc = "done"
    /\ \E a \in cr.graphed :
         /\ cited_by_url(a) # None
         /\ [url |-> cited_by_url(a), by |-> "extract_cited_title", depth |-> 0]
                \in cr.fetched

\* C9: in a second run over a store that kept the first run's results, no
\* add_result is issued for an article_url the store already held, and the
\* results returned hold none of them.
C9_DedupIdempotence ==
    cr.run = 2 =>
        /\ cr.added \cap cr.store0 = {}
        /\ cr.pc = "done" => Range(cr.result) \cap cr.store0 = {}

\* C10: the results a scrape call stores, and those it registers with the
\* graph, are never more than num_results: the surplus of the last page is
\* left out.
C10_SurplusLeftOut ==
    /\ Cardinality(cr.stored) <= cr.num_results
    /\ Cardinality(cr.graphed) <= cr.num_results

\* C11: a search page whose fetch_page returns None does not end the crawl:
\* in that step nothing is stored, graphed or collected, the offset moves on
\* by one page and scrape is back at the head of its loop; what was collected
\* before stays collected, and what is returned is cut from all that was
\* collected, before and after.
C11_FailedFetchGoesOn ==
    /\ [][cr'.failed # cr.failed =>
            /\ cr.pc = "fetch" /\ cr'.pc = "loop"
            /\ cr'.start_index = cr.start_index + PageStep
            /\ cr'.failed = cr.failed \cup {cr.start_index}
            /\ store' = store /\ graph' = graph /\ tks' = tks
            /\ cr'.all_results = cr.all_results
            /\ cr'.added = cr.added /\ cr'.graphed = cr.graphed]_vars
    /\ [](cr.pc = "done" => cr.result = Take(cr.all_results, cr.num_results))

\* the first page could not be fetched, and the results of the next one were
\* returned
C11_Witness ==
    /\ cr.pc = "done"
    /\ 0 \in cr.failed
    /\ cr.result # <<>>
    /\ Range(cr.result) \subseteq Range(PageAt(web, PageStep))

\* C12: the active pool never holds more than num_proxies addresses: in
\* every reachable state, and so after every refresh, however many candidates
\* passed the probe.
C12_PoolSize == Len(pm.proxy_list) <= NumProxies

\* a refresh returned after more than num_proxies probes had passed
C12_Witness ==
    /\ api.op = "get_working_proxies" /\ api.pc = "done" /\ api.kind = "return"
    /\ Len(api.passed) > NumProxies
    /\ Len(pm.proxy_list) = NumProxies
    /\ api.pool = pm.proxy_list

\* C13: remove_proxy stamps the address with the present time in the
\* blacklist and in the blacklist file, and a ProxyManager constructed later
\* on that file has the address in its blacklist if and only if less than
\* blacklist_duration has passed since that stamp; it loads nothing else, and
\* what it loads keeps its stamp.
C13_BlacklistTTL ==
    [][/\ (api'.op = "remove_proxy" /\ api'.left # api.left) =>
            /\ api'.arg \in DOMAIN pm'.blacklist
            /\ pm'.blacklist[api'.arg] = Now
            /\ pm'.blacklist_file = pm'.blacklist
       /\ (api'.op = "__init__" /\ api'.left # api.left) =>
            /\ pm'.blacklist_file = pm.blacklist_file
            /\ DOMAIN pm'.blacklist \subseteq DOMAIN pm.blacklist_file
            /\ \A p \in DOMAIN pm.blacklist_file :
                  /\ p \in DOMAIN pm'.blacklist <=>
                        Now - pm.blacklist_file[p] < BlacklistDuration
                  /\ p \in DOMAIN pm'.blacklist =>
                        pm'.blacklist[p] = pm.blacklist_file[p]]_vars

\* a ProxyManager was constructed on a file holding an entry younger than
\* blacklist_duration, which it has, and an older one, which it has not
C13_Witness ==
    /\ api.op = "__init__" /\ api.pc = "done"
    /\ \E p, q \in DOMAIN pm.blacklist_file :
          /\ Now - pm.blacklist_file[p] < BlacklistDuration
          /\ p \in DOMAIN pm.blacklist
          /\ Now - pm.blacklist_file[q] >= BlacklistDuration
          /\ q \notin DOMAIN pm.blacklist

\* C14: a get_working_proxies call that has ended raised NoProxiesAvailable
\* if and only if it asked the provider and either got no address or saw no
\* candidate pass _test_proxy; otherwise it returned the pool, which is not
\* empty.
C14_RefreshFailsIffNoCandidate ==
    (api.op = "get_working_proxies" /\ api.pc = "done") =>
        /\ api.kind \in {"raise", "return"}
        /\ api.kind = "raise" <=>
              (api.asked /\ (api.raw = <<>> \/ api.passed = <<>>))
        /\ api.kind = "return" =>
              /\ api.pool # <<>>
              /\ api.pool = pm.proxy_list

\* a refresh whose provider gave candidates none of which passed the probe
\* raised
C14_Witness ==
    /\ api.op = "get_working_proxies" /\ api.pc = "done"
    /\ api.kind = "raise"
    /\ api.raw # <<>>
    /\ api.passed = <<>>

\* C15: a get_working_proxies call made less than refresh_interval after
\* the last refresh, with a non-empty proxy_list, returns that list at once:
\* the provider is not asked, no probe is started, and the ProxyManager
\* (proxy_list, blacklist, blacklist file, last_refresh, binding, counters)
\* is left as it was.
C15_CachedRefreshIsNoOp ==
    [][(/\ api'.op = "get_working_proxies" /\ api'.left # api.left
        /\ Now - pm.last_refresh < RefreshInterval
        /\ pm.proxy_list # <<>>) =>
            /\ pm' = pm
            /\ api'.pc = "done" /\ api'.kind = "return"
            /\ api'.pool = pm.proxy_list
            /\ ~api'.asked /\ api'.raw = <<>>
            /\ api'.probing = <<>> /\ api'.passed = <<>>]_vars

\* a refresh returned the pool without asking the provider
C15_Witness ==
    /\ api.op = "get_working_proxies" /\ api.pc = "done" /\ api.kind = "return"
    /\ ~api.asked
    /\ api.pool # <<>> /\ api.pool = pm.proxy_list
    /\ Now - pm.last_refresh < RefreshInterval

\* C16: an address get_proxy has just returned is a member of proxy_list,
\* whether it is the binding kept from an earlier call or a new choice.
C16_AcquiredIsActive ==
    (api.op = "get_proxy" /\ api.pc = "done" /\ api.val # None) =>
        api.val \in Range(pm.proxy_list)

C18_NoProxyNoRequest ==
    \A f \in Fetchers :
        (fetch[f].pc \in {"sleep", "request", "captcha_r", "done"}
            /\ fetch[f].proxy = None) =>
                /\ fetch[f].pc = "done"
                /\ fetch[f].result = "NoProxiesAvailable"
                /\ fetch[f].log.request = 0
                /\ MarkedFailures(fetch[f]) = 0
                /\ fetch[f].log.mark_proxy_failure["CAPTCHA"] = 0
                /\ fetch[f].log.remove_proxy = 0

\* C19 (as the claim states it): once mark_proxy_failure(p, error_type) has
\* returned, p is not in proxy_list, is blacklisted as of now, and the
\* blacklist file holds the blacklist.
C19_FailureEvicts ==
    (api.op = "mark_proxy_failure" /\ api.pc = "done") =>
        /\ api.arg \notin Range(pm.proxy_list)
        /\ IsBlacklisted(pm, api.arg, Now)
        /\ pm.blacklist_file = pm.blacklist

\* C19: mark_proxy_failure(p, error_type) adds one to p's failures and one
\* to the counter of error_type (timeouts, captchas, connection_errors; none
\* for OTHER) when p has counters, and changes nothing else: proxy_list, the
\* blacklist, the blacklist file, the binding and every other counter are as
\* before.  An address without counters is left without them.
C19_FailureOnlyCounts ==
    [][(api'.op = "mark_proxy_failure" /\ api'.left # api.left) =>
          LET p == api'.arg
              k == api'.error_type
              field == CASE k = "TIMEOUT"    -> "timeouts"
                         [] k = "CAPTCHA"    -> "captchas"
                         [] k = "CONNECTION" -> "connection_errors"
                         [] OTHER            -> "failures"
              old == pm.proxy_performance
          IN  IF p \in DOMAIN old
              THEN pm' = [pm EXCEPT !.proxy_performance[p] =
                              IF field = "failures"
                              THEN [old[p] EXCEPT !.failures = @ + 1]
                              ELSE [old[p] EXCEPT !.failures = @ + 1,
                                                  ![field] = @ + 1]]
              ELSE pm' = pm]_vars

\* a failure was marked for an address of the pool, which is still in the
\* pool and not blacklisted
C19_Witness ==
    /\ api.op = "mark_proxy_failure" /\ api.pc = "done"
    /\ api.arg \in Range(pm.proxy_list)
    /\ api.arg \notin DOMAIN pm.blacklist
    /\ pm.proxy_performance[api.arg].failures > 0

\* C20: mark_proxy_success(p) adds one to p's successes (p having counters)
\* and changes nothing else: proxy_list, the blacklist and its file, the
\* binding, last_refresh, p's other counters and the counters of every other
\* address are as before.
C20_SuccessOnlyCounts ==
    [][(api'.op = "mark_proxy_success" /\ api'.left # api.left) =>
          LET p == api'.arg
          IN  IF p \in DOMAIN pm.proxy_performance
              THEN pm' = [pm EXCEPT !.proxy_performance[p].successes = @ + 1]
              ELSE pm' = pm]_vars

\* a success was marked for the bound address of the pool, which had failed
\* before
C20_Witness ==
    /\ api.op = "mark_proxy_success" /\ api.pc = "done"
    /\ api.arg \in Range(pm.proxy_list)
    /\ pm.current_proxy = api.arg
    /\ pm.proxy_performance[api.arg].successes = 1
    /\ pm.proxy_performance[api.arg].failures = 1

\* C21: no two fetch_page calls that are running at the same time (between
\* their get_proxy and their return) are bound to the same address.
C21_BindingNotShared ==
    \A f, g \in Fetchers :
        (/\ f # g
         /\ fetch[f].pc \in {"sleep", "request", "captcha_r"}
         /\ fetch[g].pc \in {"sleep", "request", "captcha_r"}
         /\ fetch[f].proxy # None) =>
            fetch[f].proxy # fetch[g].proxy

\* C22: a run of main whose initial get_working_proxies raised
\* NoProxiesAvailable has logged an error, has called neither scrape nor
\* fetch_author_profile, and exits with a non-zero status.
C22_NoProxiesExitsNonZero ==
    (mn.pc = "exit" /\ mn.path = "no_proxies") =>
        /\ mn.errors = 1
        /\ mn.scrape = 0 /\ mn.fetch_author_profile = 0
        /\ mn.exit_code # 0

C24_InsertIdempotent ==
    /\ [][(api'.op = "insert_result" /\ api'.left # api.left) =>
            LET url == api'.arg
            IN  /\ api'.kind = "return"
                /\ result_exists(store, url) => store' = store
                /\ url # None => result_exists(store', url)
                /\ Len(store') <= Len(store) + 1
                /\ \A u \in Articles \ {url} :
                      result_exists(store', u) <=> result_exists(store, u)]_vars
    /\ [](\A i, j \in 1..Len(store) :
            (i # j /\ store[i] # None) => store[i] # store[j])
    /\ []((api.op = "result_exists" /\ api.pc = "done") =>
            (api.exists <=> api.arg \in Range(store) \ {None}))

\* a result was inserted twice and the table holds its one row
C24_Witness ==
    /\ api.op = "insert_result" /\ api.pc = "done" /\ api.left = MaxOps - 2
    /\ api.arg # None
    /\ store = <<api.arg>>

\* C25: with force_direct_connection set, get_proxy returns None at once,
\* without a refresh, without asking the provider and without raising;
\* get_working_proxies returns an empty pool without asking the provider and
\* without raising; fetch_page never waits for a refresh, sends every request
\* with no proxy, and returns the content when a request succeeds.
C25_DirectMode ==
    /\ [][(api'.op = "get_proxy" /\ api'.left # api.left) =>
            /\ api'.pc = "done" /\ api'.kind = "return" /\ api'.val = None
            /\ api'.calls = 0 /\ ~api'.asked
            /\ pm' = pm]_vars
    /\ [][(api'.op = "get_working_proxies" /\ api'.left # api.left) =>
            /\ api'.pc = "done" /\ api'.kind = "return" /\ ~api'.asked
            /\ api'.pool = <<>> /\ pm'.proxy_list = <<>>]_vars
    /\ [](\A f \in Fetchers :
            /\ fetch[f].pc \notin {"gp_r1", "gp_r2", "gp_r3", "captcha_r"}
            /\ fetch[f].proxy = None
            /\ fetch[f].log.addresses \subseteq {None}
            /\ fetch[f].log.refresh_proxies <= fetch[f].met.captcha
            /\ (fetch[f].pc = "done" /\ fetch[f].met.ok > 0) =>
                    fetch[f].result = "content")
    /\ [](pm.proxy_list = <<>> /\ pm.current_proxy = None)

\* in direct mode a fetch_page call returned the content of its second
\* request, and get_proxy was called
C25_Witness ==
    /\ pm.force_direct_connection
    /\ fetch["A"].pc = "done" /\ fetch["A"].result = "content"
    /\ fetch["A"].log.request = 2 /\ fetch["A"].log.addresses = {None}
    /\ api.op = "get_proxy" /\ api.pc = "done"

C27_RefreshedPoolNotBlacklisted ==
    [][\A f \in Fetchers :
         (/\ fetch[f].pc \in {"gp_r1", "gp_r2", "gp_r3", "captcha_r"}
          /\ fetch'[f] # fetch[f]) =>
             \A p \in Range(pm'.proxy_list) : ~IsBlacklisted(pm', p, Now)]_vars

C29_DownloadSticky ==
    /\ dl.log.get_proxy <= 1
    /\ Cardinality(dl.log.addresses) <= 1
    /\ dl.log.remove_proxy > 0 => dl.met.failed = Retries

\* C30, as stated: every fetch of a cited-by URL happens at a depth between
\* 1 and max_depth.
C30_CitedByFetchWithinDepth ==
    \A e \in cr.fetched :
        e.url \in CitedUrls => (1 <= e.depth /\ e.depth <= cr.max_depth)

\* C30, amended: every fetch_cited_by_page coroutine, and so every fetch it
\* makes of its own page, has a depth between 1 and max_depth and the URL of
\* a "Cited by" link; the coroutines of depth 1 come from results the scrape
\* stored that carry the link, while max_depth > 0; a coroutine of depth d
\* creates children only from results of its page that carry the link, and
\* only while d < max_depth; when a gather returns, the next level is
\* gathered if some coroutine returned children and the expansion is over
\* if none did.  The title lookups (extract_cited_title) fetch cited-by URLs
\* outside these bounds: at depth 0 and from coroutines of depth max_depth.
C30_ExpansionWithinDepth ==
    /\ []( /\ \A e \in cr.fetched :
               /\ e.by = "fetch_cited_by_page" =>
                     /\ 1 <= e.depth /\ e.depth <= cr.max_depth
                     /\ e.url \in CitedUrls
               /\ e.by = "extract_cited_title" =>
                     0 <= e.depth /\ e.depth <= cr.max_depth
           /\ \A j \in 1..Len(cr.citation_tasks) :
               /\ cr.max_depth > 0
               /\ \E a \in cr.stored : cited_by_url(a) = cr.citation_tasks[j]
               /\ cr.citation_tasks[j] \in CitedUrls
           /\ \A k \in 1..Len(tks) :
               /\ 1 <= tks[k].depth /\ tks[k].depth <= cr.max_depth
               /\ tks[k].url \in CitedUrls
               /\ tks[k].depth = tks[1].depth
               /\ tks[k].tasks # <<>> => tks[k].depth < cr.max_depth
               /\ \A j \in 1..Len(tks[k].tasks) :
                     \E i \in 1..Len(tks[k].results) :
                        /\ i < tks[k].i
                        /\ cited_by_url(tks[k].results[i]) = tks[k].tasks[j]
                        /\ tks[k].tasks[j] # None)
    /\ [][(/\ cr.pc = "gather"
            /\ \A k \in 1..Len(tks) : tks[k].pc = "done"
            /\ tks' # tks) =>
              IF \A k \in 1..Len(tks) : tks[k].tasks = <<>>
              THEN tks' = <<>> /\ cr'.pc # "gather"
              ELSE /\ cr'.pc = "gather"
                   /\ tks' # <<>>
                   /\ \A k \in 1..Len(tks') :
                         /\ tks'[k].pc = "start"
                         /\ tks'[k].depth = tks[1].depth + 1
                         /\ \E j \in 1..Len(tks) :
                               tks'[k].url \in Range(tks[j].tasks)]_vars

\* a coroutine of depth max_depth = 2 has returned: its page held a result
\* with a "Cited by" link, it looked the title up and created no child
C30_Witness ==
    /\ cr.max_depth = 2
    /\ \E k \in 1..Len(tks) :
         /\ tks[k].depth = 2 /\ tks[k].pc = "done"
         /\ tks[k].tasks = <<>>
         /\ \E i \in 1..Len(tks[k].results) :
               /\ cited_by_url(tks[k].results[i]) # None
               /\ [url |-> cited_by_url(tks[k].results[i]),
                    by |-> "extract_cited_title", depth |-> 2] \in cr.fetched
         /\ [url |-> tks[k].url, by |-> "fetch_cited_by_page", depth |-> 2]
               \in cr.fetched

\* C31: a result whose article_url the store already holds is skipped: no
\* download_pdf and no scrape_pdf_link is awaited for it, it is not passed to
\* add_citation and no fetch_cited_by_page coroutine is created from it.
C31_StoredResultSkipped ==
    /\ cr.pc \in {"pdf_direct", "pdf_link", "pdf_doi"} =>
          ~result_exists(store, Here(cr).a)
    /\ \A d \in cr.downloads : d.a \notin cr.store0
    /\ cr.graphed \cap cr.store0 = {}
    /\ \A j \in 1..Len(cr.citation_tasks) :
          \A a \in cr.store0 : cited_by_url(a) # cr.citation_tasks[j]

\* C32: a result for which download_pdf was awaited and returned False every
\* time is, once the attempts for it are over, passed to add_result and in
\* the store, with no "pdf_path" set; it is passed to add_citation unless the
\* store held it before the call; and when its page is done it is among
\* all_results, so among the results returned unless the slice to
\* num_results cuts it off.
C32_FailedDownloadKeepsResult ==
    \A d \in cr.downloads :
        LET h == [a |-> d.a, page |-> d.page]
        IN  (/\ \A e \in cr.downloads : (e.a = d.a /\ e.page = d.page) => ~e.ok
             /\ ~(cr.pc \in {"pdf_link", "pdf_doi"} /\ Here(cr) = h)) =>
                /\ h \notin cr.pdf_path
                /\ d.a \in cr.added
                /\ result_exists(store, d.a)
                /\ (d.a \notin cr.store0 /\ ~(cr.pc = "title" /\ Here(cr) = h)) =>
                        d.a \in cr.graphed
                /\ (cr.start_index > d.page \/ cr.pc = "done") =>
                        d.a \in Range(cr.all_results)
                /\ (cr.pc = "done" /\ Len(cr.all_results) <= cr.num_results) =>
                        d.a \in Range(cr.result)

\* both downloads of a1 failed; a1 was stored, graphed and returned without
\* a "pdf_path"
C32_Witness ==
    /\ cr.pc = "done"
    /\ [a |-> "a1", page |-> 0, via |-> "direct", ok |-> FALSE] \in cr.downloads
    /\ [a |-> "a1", page |-> 0, via |-> "doi", ok |-> FALSE] \in cr.downloads
    /\ [a |-> "a1", page |-> 0] \notin cr.pdf_path
    /\ "a1" \in cr.stored /\ "a1" \in cr.graphed
    /\ "a1" \in Range(cr.result)

\* C33: a page that cannot be parsed, or from which no result is parsed,
\* does not end the crawl: when scrape has returned, either it had the
\* num_results it was asked for or the last page it fetched has no next page.
C33_EmptyPageAdvances ==
    cr.pc = "done" =>
        \/ Len(cr.all_results) >= cr.num_results
        \/ ~find_next_page(web, cr.start_index)


\* C34: a refresh prunes the blacklist: when get_working_proxies has asked
\* the provider, probed and returned its list, no entry of the blacklist is
\* as old as blacklist_duration.
C34_RefreshPrunesBlacklist ==
    [][(/\ api'.op = "get_working_proxies"
        /\ api'.pc = "done"
        /\ api.pc # "done"
        /\ api'.asked
        /\ api'.kind = "return")
       => \A p \in DOMAIN pm'.blacklist :
              Now - pm'.blacklist[p] < BlacklistDuration]_vars


C36_ScrapeReturns == <>(cr.pc = "done")


\* C37: with fetch_page calls running concurrently, a request is never sent
\* through an address that is blacklisted when the request goes out.
C37_NoRequestThroughBlacklisted ==
    [][\A f \in Fetchers :
         (/\ fetch[f].pc = "sleep"
          /\ fetch'[f].pc = "request"
          /\ fetch[f].proxy # None) =>
             ~IsBlacklisted(pm, fetch[f].proxy, Now)]_vars


\* C38: a ProxyManager that is set neither to force_direct_connection nor to
\* debug_mode never has a request of fetch_page or of download_pdf on the
\* wire without a proxy.
C38_UnproxiedOnlyWhenDirect ==
    ~(pm.force_direct_connection \/ pm.debug_mode) =>
        /\ \A f \in Fetchers : fetch[f].pc = "request" => fetch[f].proxy # None
        /\ dl.pc = "request" => dl.proxy # None


\* C39: a get_working_proxies call that raises NoProxiesAvailable, at "No raw
\* proxies found." or after the probes, leaves proxy_list and last_refresh
\* as they were.
C39_FailedRefreshChangesNothing ==
    [][(/\ api'.op = "get_working_proxies"
        /\ api'.pc = "done"
        /\ api.pc # "done" \/ api'.left # api.left
        /\ api'.kind = "raise")
       => /\ pm'.proxy_list = pm.proxy_list
          /\ pm'.last_refresh = pm.last_refresh]_vars


\* C40: the performance counters of one ProxyManager.  In every state the
\* failures of an address are at least its timeouts, captchas and
\* connection_errors together; no counter of an address that keeps its
\* counters decreases in any step; and a mark_proxy_failure on an address
\* with counters raises its failures by one and its per-kind counters
\* together by at most one, none of them by more than one.
C40_CountersConsistent ==
    /\ [](\A p \in DOMAIN pm.proxy_performance :
            LET st == pm.proxy_performance[p]
            IN  st.failures >= st.timeouts + st.captchas + st.connection_errors)
    /\ [][\A p \in DOMAIN pm.proxy_performance \cap DOMAIN pm'.proxy_performance :
            LET st == pm.proxy_performance[p]
                nx == pm'.proxy_performance[p]
            IN  /\ nx.successes >= st.successes
                /\ nx.failures >= st.failures
                /\ nx.timeouts >= st.timeouts
                /\ nx.captchas >= st.captchas
                /\ nx.connection_errors >= st.connection_errors
                /\ nx.request_count >= st.request_count]_vars
    /\ [][(/\ api'.op = "mark_proxy_failure"
           /\ api'.left # api.left
           /\ api'.arg \in DOMAIN pm.proxy_performance)
          => LET st == pm.proxy_performance[api'.arg]
                 nx == pm'.proxy_performance[api'.arg]
             IN  /\ nx.failures = st.failures + 1
                 /\ nx.timeouts - st.timeouts \in {0, 1}
                 /\ nx.captchas - st.captchas \in {0, 1}
                 /\ nx.connection_errors - st.connection_errors \in {0, 1}
                 /\ (nx.timeouts + nx.captchas + nx.connection_errors)
                      - (st.timeouts + st.captchas + st.connection_errors)
                    \in {0, 1}]_vars

\* an address has failed twice, once by a timeout and once in another way
C40_Witness ==
    /\ api.op = "mark_proxy_failure" /\ api.pc = "done"
    /\ api.arg \in DOMAIN pm.proxy_performance
    /\ pm.proxy_performance[api.arg].failures = 2
    /\ pm.proxy_performance[api.arg].timeouts = 1
    /\ pm.proxy_performance[api.arg].captchas = 0
    /\ pm.proxy_performance[api.arg].connection_errors = 0

====
